---------------------------- MODULE Spec2Model ----------------------------
(***************************************************************************)
(* A model of the LC-3 assembler: the lexer (Parser::next_token), operand  *)
(* construction (Instruction::add_operand) and the instruction parser      *)
(* (Parser::parse_instructions).                                           *)
(*                                                                         *)
(* A character is a one-character string; the vertical tab, which has no   *)
(* TLA+ escape, is written VT.  A source text is a sequence of characters. *)
(* A pointer into the source is the 0-based offset of the character it     *)
(* points to, so the character at pointer p of src is src[p + 1] and the   *)
(* end pointer is Len(src).                                                *)
(***************************************************************************)
EXTENDS Integers, Sequences, FiniteSets, TLC

VARIABLES
    source,        \* the text handed to Parser(source)
    current_,      \* Parser::current_
    cur_token_,    \* Parser::cur_token_
    tokens,        \* history: the tokens returned by the calls of next_token
    tok,           \* the token handed to Instruction::add_operand
    label_,        \* Instruction::label_ of the instruction under construction
    opcode_,       \* Instruction::opcode_ of the instruction under construction
    operands_,     \* Instruction::operands_ of the instruction under construction
    calls,         \* history: the number of add_operand calls made so far
    last_err,      \* the value returned by the latest add_operand call
    instructions,  \* the vector built (and returned) by parse_instructions
    diags,         \* history: the diagnostics emitted by the parser, in order
    pc,            \* position of the parser: "idle" before parse_instructions,
                   \* "loop" at its switch, "opcode", "first_operand" and
                   \* "next_operand" inside an instruction, "done" on return
    instructions_, \* Assembler::instructions_
    address_,      \* Instruction::address_ of the instructions pass 1 has reached
    symbol_table_, \* Assembler::symbol_table_
    address,       \* the local `address` of assign_addresses
    results,       \* the local `results` of translate, then the value run returns
    word_index,    \* history: the size of `results` when translate reached each instruction
    asm_diags,     \* history: the diagnostics of the validator and the assembler
    idx,           \* the index of the instruction a loop of run has reached
    valid,         \* history: the values validate_and_emit_diagnostics returned
    apc,           \* position of main and Assembler::run
    exit_code      \* the value main returns

lexVars   == <<source, current_, cur_token_, tokens>>
opVars    == <<tok, label_, opcode_, operands_, calls, last_err>>
parseVars == <<instructions, diags, pc>>
asmVars   == <<instructions_, address_, symbol_table_, address, results,
               word_index, asm_diags, idx, valid, apc, exit_code>>
vars      == <<lexVars, opVars, parseVars, asmVars>>

----------------------------------------------------------------------------
(* Bounds of the model.                                                     *)

MaxLen == 4

MaxIdLen == 3

MaxSpaceLen == 3

MaxEndCalls == 2

MaxDigits == 5

MaxBinDigits == 8

MaxOpLen == 4

MaxPieces == 4

----------------------------------------------------------------------------
(* Characters.                                                              *)

VT == "\\v"

NullPtr == -1

OpcodeSpellings ==
    { <<"ADD", <<"A", "D", "D">>>>,
      <<"AND", <<"A", "N", "D">>>>,
      <<"BR", <<"B", "R">>>>,
      <<"BRn", <<"B", "R", "n">>>>,
      <<"BRz", <<"B", "R", "z">>>>,
      <<"BRp", <<"B", "R", "p">>>>,
      <<"BRzp", <<"B", "R", "z", "p">>>>,
      <<"BRnp", <<"B", "R", "n", "p">>>>,
      <<"BRnz", <<"B", "R", "n", "z">>>>,
      <<"BRnzp", <<"B", "R", "n", "z", "p">>>>,
      <<"JMP", <<"J", "M", "P">>>>,
      <<"JSR", <<"J", "S", "R">>>>,
      <<"JSRR", <<"J", "S", "R", "R">>>>,
      <<"LD", <<"L", "D">>>>,
      <<"LDI", <<"L", "D", "I">>>>,
      <<"LDR", <<"L", "D", "R">>>>,
      <<"LEA", <<"L", "E", "A">>>>,
      <<"NOT", <<"N", "O", "T">>>>,
      <<"RET", <<"R", "E", "T">>>>,
      <<"RTI", <<"R", "T", "I">>>>,
      <<"ST", <<"S", "T">>>>,
      <<"STI", <<"S", "T", "I">>>>,
      <<"STR", <<"S", "T", "R">>>>,
      <<"TRAP", <<"T", "R", "A", "P">>>>,
      <<"GETC", <<"G", "E", "T", "C">>>>,
      <<"OUT", <<"O", "U", "T">>>>,
      <<"PUTS", <<"P", "U", "T", "S">>>>,
      <<"IN", <<"I", "N">>>>,
      <<"PUTSP", <<"P", "U", "T", "S", "P">>>>,
      <<"HALT", <<"H", "A", "L", "T">>>> }

PseudoSpellings ==
    { <<"ORIG", <<".", "O", "R", "I", "G">>>>,
      <<"FILL", <<".", "F", "I", "L", "L">>>>,
      <<"BLKW", <<".", "B", "L", "K", "W">>>>,
      <<"STRINGZ", <<".", "S", "T", "R", "I", "N", "G", "Z">>>>,
      <<"END", <<".", "E", "N", "D">>>> }

UpperLetters ==
    {"A", "B", "C", "D", "E", "F", "G", "H", "I", "J", "K", "L", "M", "N", "O", "P", "Q", "R", "S", "T", "U", "V", "W", "X", "Y", "Z"}

LowerLetters ==
    {"a", "b", "c", "d", "e", "f", "g", "h", "i", "j", "k", "l", "m", "n", "o", "p", "q", "r", "s", "t", "u", "v", "w", "x", "y", "z"}

Letters == UpperLetters \cup LowerLetters

Digits == {"0", "1", "2", "3", "4", "5", "6", "7", "8", "9"}

\* the characters std::isspace accepts in the "C" locale
isspace == {" ", "\t", "\n", VT, "\f", "\r"}

\* the characters std::isdigit accepts
isdigit == Digits

\* the characters std::isalnum accepts in the "C" locale
isalnum == Letters \cup Digits

SetMin(S) == CHOOSE m \in S : \A n \in S : m <= n

\* std::find_if_not(current, end, pred): the first pointer in [current, end)
\* whose character is not among `accepted`, the characters pred holds of, or
\* end.
find_if_not(src, current, accepted) ==
    SetMin({p \in current..Len(src) : p = Len(src) \/ src[p + 1] \notin accepted})

\* std::find(current, end, ch): the first pointer in [current, end) whose
\* character is ch, or end.
find(src, current, ch) ==
    SetMin({p \in current..Len(src) : p = Len(src) \/ src[p + 1] = ch})

\* std::string(begin, end)
Slice(src, begin, end) == SubSeq(src, begin + 1, end)

----------------------------------------------------------------------------
(* The lexer's helpers.                                                     *)

\* consume_spaces without the exception for the newline
consume_spaces_AnySpace(src, current) == find_if_not(src, current, isspace)

consume_spaces(src, current) ==
    find_if_not(src, current, isspace \ {"\n"})

\* parse_decimal_number that takes a sign only when a digit follows it
parse_decimal_number_SignNeedsDigit(src, current) ==
    IF current = Len(src) THEN Len(src)
    ELSE IF src[current + 1] \in {"+", "-"}
    THEN IF current + 1 < Len(src) /\ src[current + 2] \in isdigit
         THEN find_if_not(src, current + 1, isdigit)
         ELSE current
    ELSE find_if_not(src, current, isdigit)

parse_decimal_number(src, current) ==
    IF current = Len(src) THEN Len(src)
    ELSE LET afterSign == IF src[current + 1] \in {"+", "-"}
                          THEN current + 1 ELSE current
         IN  find_if_not(src, afterSign, isdigit)

lex_decimal_number(src, current) == parse_decimal_number(src, current)

parse_string_literal(src, current) ==
    LET stops == {p \in current..(Len(src) - 1) : src[p + 1] \in {"\"", "\n"}}
    IN  IF stops = {} THEN Len(src)
        ELSE LET p == SetMin(stops)
             IN  IF src[p + 1] = "\"" THEN p + 1 ELSE p

lex_string_literal(src, current) == parse_string_literal(src, current)

lex_identifier(src, current) == find_if_not(src, current, isalnum)

is_valid_opcode(identifier) ==
    \E e \in OpcodeSpellings : e[2] = identifier

\* is_valid_register with `<= '8'` for `< '8'`
is_valid_register_UpTo8(identifier) ==
    /\ Len(identifier) = 2
    /\ identifier[1] = "R"
    /\ identifier[2] \in {"0", "1", "2", "3", "4", "5", "6", "7", "8"}

is_valid_register(identifier) ==
    /\ Len(identifier) = 2
    /\ identifier[1] = "R"
    /\ identifier[2] \in {"0", "1", "2", "3", "4", "5", "6", "7"}

HexDigits ==
    Digits \cup {"a", "b", "c", "d", "e", "f"} \cup {"A", "B", "C", "D", "E", "F"}

may_be_valid_immediate_number(identifier) ==
    CASE identifier[1] = "x" ->
             \A i \in 2..Len(identifier) : identifier[i] \in HexDigits
      [] identifier[1] = "b" ->
             \A i \in 2..Len(identifier) : identifier[i] \in {"0", "1"}
      [] OTHER -> FALSE

identifier_kind(src, identifier_begin, identifier_end) ==
    LET identifier == Slice(src, identifier_begin, identifier_end)
    IN  IF is_valid_opcode(identifier) THEN "Opcode"
        ELSE IF is_valid_register(identifier) THEN "Register"
        ELSE IF may_be_valid_immediate_number(identifier) THEN "Immediate"
        ELSE "Label"

is_valid_pseudo(src, content_begin, content_end) ==
    \E e \in PseudoSpellings : e[2] = Slice(src, content_begin, content_end)

\* consume_comment that also consumes the newline ending the comment
consume_comment_EatsNewline(src, current) ==
    LET p == find(src, current, "\n")
    IN  IF p < Len(src) THEN p + 1 ELSE p

consume_comment(src, current) == find(src, current, "\n")

Token(kind, begin, end) == [kind |-> kind, begin |-> begin, end |-> end]

\* AtSourceEnd with the end test one character early
AtSourceEnd_OneEarly(src, current) == current + 1 >= Len(src)

\* the test `current_ == source_end_` of next_token
AtSourceEnd(src, current) == current = Len(src)

\* Parser::next_token from the cursor `current`: the token it stores in
\* cur_token_; the cursor it leaves behind is the token's end.
RECURSIVE next_token(_, _)
next_token(src, current) ==
    IF AtSourceEnd(src, current) THEN Token("End", current, current)
    ELSE
      LET ch   == src[current + 1]
          next == current + 1
      IN  CASE ch = "\n" -> Token("EOL", current, next)
            [] ch \in {"\r", " ", "\t", "\f", VT} ->
                   next_token(src, consume_spaces(src, next))
            [] ch = "," -> Token("Comma", current, next)
            [] ch = "#" ->
                   Token("Immediate", current, lex_decimal_number(src, next))
            [] ch = "\"" ->
                   Token("String", current, lex_string_literal(src, next))
            [] ch \in Digits \cup {"+", "-"} ->
                   Token("Number", current, lex_decimal_number(src, current))
            [] ch \in Letters ->
                   LET end == lex_identifier(src, next)
                   IN  Token(identifier_kind(src, current, end), current, end)
            [] ch = "." ->
                   LET end == lex_identifier(src, next)
                   IN  Token(IF is_valid_pseudo(src, current, end)
                             THEN "Pseudo" ELSE "Unknown", current, end)
            [] ch = ";" -> next_token(src, consume_comment(src, next))
            [] OTHER -> Token("Unknown", current, next)

----------------------------------------------------------------------------
(* Operand construction.                                                    *)

\* the value of a digit character in std::stoll
DigitValue(ch) ==
    CASE ch \in Digits ->
             CHOOSE v \in 0..9 :
                 <<"0", "1", "2", "3", "4", "5", "6", "7", "8", "9">>[v + 1] = ch
      [] ch \in {"a", "A"} -> 10
      [] ch \in {"b", "B"} -> 11
      [] ch \in {"c", "C"} -> 12
      [] ch \in {"d", "D"} -> 13
      [] ch \in {"e", "E"} -> 14
      [] ch \in {"f", "F"} -> 15

\* the digits std::stoll accepts in a base
DigitsOfBase(base) == {ch \in HexDigits : DigitValue(ch) < base}

RECURSIVE Accumulate(_, _, _)
Accumulate(digits, base, acc) ==
    IF digits = <<>> THEN acc
    ELSE Accumulate(Tail(digits), base, acc * base + DigitValue(Head(digits)))

\* std::stoll(str, nullptr, base): leading white space, an optional sign, for
\* base 16 an optional 0x or 0X, then the longest run of digits of the base;
\* whatever follows the run is ignored.  thrown is TRUE when no digit is found
\* (std::invalid_argument).  std::out_of_range needs a run of 19 digits or
\* more, which the bound on the length of a token text excludes.
stoll(str, base) ==
    LET n        == Len(str)
        s0       == find_if_not(str, 0, isspace)
        negative == s0 < n /\ str[s0 + 1] = "-"
        s1       == IF s0 < n /\ str[s0 + 1] \in {"+", "-"} THEN s0 + 1 ELSE s0
        has0x    == /\ base = 16
                    /\ s1 + 2 < n
                    /\ str[s1 + 1] = "0"
                    /\ str[s1 + 2] \in {"x", "X"}
                    /\ str[s1 + 3] \in HexDigits
        s2       == IF has0x THEN s1 + 2 ELSE s1
        s3       == find_if_not(str, s2, DigitsOfBase(base))
        mag      == Accumulate(Slice(str, s2, s3), base, 0)
    IN  [thrown |-> s3 = s2, value |-> IF negative THEN -mag ELSE mag]

UINT16_MAX == 65535

INT16_MIN == -32768

\* static_cast<std::int16_t>(value)
ToInt16(value) == ((value + 32768) % 65536) - 32768

is_valid_number(token_content) ==
    CASE token_content[1] \in {"#", "x", "b"} ->
             IF Len(token_content) = 1 THEN FALSE
             ELSE IF Len(token_content) = 2
                  THEN token_content[2] # "+" /\ token_content[2] # "-"
                  ELSE TRUE
      [] token_content[1] \in {"+", "-"} -> Len(token_content) > 1
      [] OTHER -> TRUE

\* IsOverflow with the signed maximum as the upper limit
IsOverflow_SignedMax(value) == value > 32767 \/ value < INT16_MIN

\* the range test of string_to_integer
IsOverflow(value) == value > UINT16_MAX \/ value < INT16_MIN

string_to_integer(content) ==
    LET base == CASE content[1] = "x" -> 16
                  [] content[1] = "b" -> 2
                  [] OTHER -> 10
        pos  == IF content[1] \in {"#", "x", "b"} THEN 1 ELSE 0
        r    == stoll(Slice(content, pos, Len(content)), base)
    IN  IF r.thrown THEN [ok |-> FALSE, value |-> 0]
        ELSE IF IsOverflow(r.value) THEN [ok |-> FALSE, value |-> 0]
        ELSE [ok |-> TRUE, value |-> ToInt16(r.value)]

to_integer(content) == string_to_integer(content)

\* Operand: the union is modelled by one field per member, the inactive
\* members held at 0 and <<>>; a label or string operand holds the text its
\* two pointers delimit.
Operand(type, reg_id, imm, text) ==
    [type |-> type, reg_id_ |-> reg_id, imm_ |-> imm, string_content_ |-> text]

from_register(reg_id) == Operand("Register", reg_id, 0, <<>>)

from_integer(is_immediate, imm) ==
    IF is_immediate THEN Operand("Immediate", 0, imm, <<>>)
    ELSE Operand("Number", 0, imm, <<>>)

from_label(content) == Operand("Label", 0, 0, content)

\* ++begin, --end: the surrounding quotes are removed
from_string_literal(content) ==
    Operand("StringLiteral", 0, 0, SubSeq(content, 2, Len(content) - 1))

\* HasClosingQuote that only looks at the last character
HasClosingQuote_LastCharOnly(content) == content[Len(content)] = "\""

\* the test of the String case of add_operand
HasClosingQuote(content) ==
    Len(content) > 1 /\ content[Len(content)] = "\""

\* the operand list after a successful construction
PushOperand(operands, operand) == Append(operands, operand)

\* KeepOperands when the operand was pushed before it was validated
KeepOperands_PushedEarly(operands) == Append(operands, from_integer(FALSE, 0))

\* the operand list after a failed construction
KeepOperands(operands) == operands

\* Instruction::add_operand on a token of kind `kind` and text `content`:
\* the value returned and operands_ afterwards.
add_operand(operands, kind, content) ==
    CASE kind = "Register" ->
             [err |-> "NoError",
              operands |-> PushOperand(operands, from_register(DigitValue(content[2])))]
      [] kind = "Label" ->
             [err |-> "NoError",
              operands |-> PushOperand(operands, from_label(content))]
      [] kind \in {"Immediate", "Number"} ->
             IF ~is_valid_number(content)
             THEN [err |-> "InvalidNumber", operands |-> KeepOperands(operands)]
             ELSE LET r == to_integer(content)
                  IN  IF r.ok
                      THEN [err |-> "NoError",
                            operands |-> PushOperand(operands,
                                from_integer(kind = "Immediate", r.value))]
                      ELSE [err |-> "IntegerOverflow",
                            operands |-> KeepOperands(operands)]
      [] kind = "String" ->
             IF HasClosingQuote(content)
             THEN [err |-> "NoError",
                   operands |-> PushOperand(operands, from_string_literal(content))]
             ELSE [err |-> "MissingQuote", operands |-> KeepOperands(operands)]
      [] OTHER -> [err |-> "InvalidTokenKind", operands |-> KeepOperands(operands)]

----------------------------------------------------------------------------
(* Instructions.                                                            *)

\* Instruction: a default-constructed one is unknown
Instruction(label, opcode, operands) ==
    [label_ |-> label, opcode_ |-> opcode, operands_ |-> operands]

UnknownInstruction == Instruction(<<>>, "UnknownOp", <<>>)

is_unknown(instr) == instr.opcode_ = "UnknownOp"

\* Instruction::set_opcode(Token): the enumerator whose spelling is the text
OpcodeOf(content) ==
    LET e == CHOOSE e \in OpcodeSpellings \cup PseudoSpellings : e[2] = content
    IN  e[1]

TokenContent(src, token) == Slice(src, token.begin, token.end)

\* FailureResult that keeps the instructions parsed before the failure
FailureResult_KeepsParsed(parsed) == Append(parsed, UnknownInstruction)

\* the vector parse_instructions returns when an instruction failed to parse
FailureResult(parsed) == <<UnknownInstruction>>

\* IsEndInstruction that never stops the parse
IsEndInstruction_Never(instr) == FALSE

\* the test that ends parse_instructions after an instruction
IsEndInstruction(instr) == instr.opcode_ = "END"

----------------------------------------------------------------------------
(* Inputs.                                                                  *)

SeqsUpTo(S, n) == UNION {[1..k -> S] : k \in 0..n}

RECURSIVE Flatten(_)
Flatten(pieces) ==
    IF pieces = <<>> THEN <<>> ELSE Head(pieces) \o Flatten(Tail(pieces))

\* punctuation, comments, strings and numbers
LexChars == {"\n", " ", ";", "\"", "#", "1", "a", ","}

\* every white space character, with a letter between them
SpaceChars == {"\n", " ", "\t", "\r", "\f", VT, "a"}

\* alphanumeric runs: opcodes, registers, immediates, labels
IdentChars == {"A", "D", "R", "x", "b", "0", "1", "7", "8", "2", "g", "F", "X", " "}

\* digit-led runs and signs
NumberChars == {"3", "D", "5", "+", "-", "#", "x", "."}

ExtraSources ==
    { <<"a", "d", "d">>, <<"A", "d", "d">>, <<"X", "1", "2", "3", "4">>,
      <<"x", "1", "2", "3", "4">>, <<"b", "1", "0", "1">>, <<"B", "1", "0", "1">>,
      <<".", "E", "N", "D">>, <<".", "E", "n", "d">>, <<".", "O", "R", "I", "G">>,
      <<"B", "R", "n", "z", "p", " ", "L">>, <<"?", "!", ";">>,
      <<"\"", "H", "i", "\"", "a">>, <<"\"", "H", "i", "\n", "\"">>,
      <<"H", "A", "L", "T", ";", "x", "\n", "R", "7">>,
      <<"R", "8", " ", "R", "7">>, <<"3", "D", "5">> }

LexSources ==
    SeqsUpTo(LexChars, MaxLen) \cup SeqsUpTo(SpaceChars, MaxSpaceLen)
        \cup SeqsUpTo(IdentChars, MaxIdLen) \cup SeqsUpTo(NumberChars, MaxIdLen)
        \cup ExtraSources

DefaultToken == Token("Unknown", NullPtr, NullPtr)

NoTok == [kind |-> "Unknown", content |-> <<>>]

LexInit ==
    /\ current_ = 0
    /\ cur_token_ = DefaultToken
    /\ tokens = <<>>

OpInit ==
    /\ label_ = <<>>
    /\ opcode_ = "UnknownOp"
    /\ operands_ = <<>>
    /\ calls = 0
    /\ last_err = "NoError"

ParseInit ==
    /\ instructions = <<>>
    /\ diags = <<>>
    /\ pc = "idle"

\* Assembler::Assembler has not run: nothing is assembled in the lexer and
\* parser tests
AsmInit ==
    /\ instructions_ = <<>>
    /\ address_ = <<>>
    /\ symbol_table_ = <<>>
    /\ address = 0
    /\ results = <<>>
    /\ word_index = <<>>
    /\ asm_diags = <<>>
    /\ idx = 1
    /\ valid = <<>>
    /\ apc = "idle"
    /\ exit_code = "none"

----------------------------------------------------------------------------
(* The lexer driven token by token (main with --tokens, the lexer tests).   *)

EndCalls == Cardinality({i \in 1..Len(tokens) : tokens[i].kind = "End"})

NextTokenCall ==
    /\ EndCalls < MaxEndCalls
    /\ cur_token_' = next_token(source, current_)
    /\ current_' = cur_token_'.end
    /\ tokens' = Append(tokens, cur_token_')
    /\ UNCHANGED <<source, opVars, parseVars>>
    /\ UNCHANGED asmVars

Init ==
    /\ source \in LexSources
    /\ LexInit
    /\ tok = NoTok
    /\ OpInit
    /\ ParseInit
    /\ AsmInit

Next == NextTokenCall

Spec == Init /\ [][Next]_vars

----------------------------------------------------------------------------
(* Properties of the lexer.                                                 *)

EndReached == \E i \in 1..Len(tokens) : tokens[i].kind = "End"

NonNewlineSpace == {" ", "\t", "\r", "\f", VT}

\* C1: once next_token has returned an End token, every later call returns
\* an End token with begin = end = the end of the source, and the cursor
\* stays at the end of the source.
C1_EndIsIdempotent ==
    /\ \A i \in 1..Len(tokens) :
           tokens[i].kind = "End" =>
               \A j \in i..Len(tokens) :
                   tokens[j] = Token("End", Len(source), Len(source))
    /\ EndReached => current_ = Len(source)

C1_Witness ==
    /\ Len(source) > 0
    /\ Len(tokens) >= 3
    /\ tokens[Len(tokens) - 1].kind = "End"
    /\ tokens[Len(tokens)].kind = "End"

\* the character at pointer p lies in a ';' comment that starts at or after lo
InComment(src, lo, p) ==
    \E q \in lo..p :
        /\ src[q + 1] = ";"
        /\ \A r \in q..p : src[r + 1] # "\n"

\* C2: every token has 0 <= begin <= end <= length of the source and begins at
\* or after the end of the token before it, and every character before the
\* first token or between two consecutive tokens is white space other than a
\* newline or lies in a ';' comment that stops before the newline; the End
\* token sits at the end of the source, so tokens and skipped text cover it.
C2_TokensTileTheSource ==
    \A i \in 1..Len(tokens) :
        LET t       == tokens[i]
            prevEnd == IF i = 1 THEN 0 ELSE tokens[i - 1].end
        IN  /\ 0 <= t.begin /\ t.begin <= t.end /\ t.end <= Len(source)
            /\ prevEnd <= t.begin
            /\ \A p \in prevEnd..(t.begin - 1) :
                   \/ source[p + 1] \in NonNewlineSpace
                   \/ InComment(source, prevEnd, p)
            /\ t.kind = "End" => t.end = Len(source)

C2_Witness ==
    /\ Len(tokens) >= 3
    /\ tokens[2].begin > tokens[1].end
    /\ tokens[1].begin > 0
    /\ \E p \in tokens[1].end..(tokens[2].begin - 1) : source[p + 1] = ";"
    /\ EndReached

NewlineCount(src) == Cardinality({p \in 1..Len(src) : src[p] = "\n"})

\* C3: when End has been returned, the number of EOL tokens returned equals
\* the number of newlines of the source; an EOL token covers exactly one
\* newline; no token other than a String contains a space, tab, CR, FF or VT.
C3_OneEOLPerNewline ==
    /\ EndReached =>
           Cardinality({i \in 1..Len(tokens) : tokens[i].kind = "EOL"})
               = NewlineCount(source)
    /\ \A i \in 1..Len(tokens) :
           LET t == tokens[i]
           IN  /\ t.kind = "EOL" =>
                      t.end = t.begin + 1 /\ source[t.begin + 1] = "\n"
               /\ t.kind # "String" =>
                      \A p \in t.begin..(t.end - 1) :
                          source[p + 1] \notin NonNewlineSpace

\* a comment ended by a newline and an unterminated string cut by a newline
C3_Witness ==
    /\ EndReached
    /\ NewlineCount(source) >= 2
    /\ \E i \in 1..(Len(tokens) - 1) :
           /\ tokens[i].kind = "String"
           /\ tokens[i + 1].kind = "EOL"
           /\ tokens[i + 1].begin = tokens[i].end
    /\ \E i \in 2..Len(tokens) :
           /\ tokens[i].kind = "EOL"
           /\ \E p \in tokens[i - 1].end..(tokens[i].begin - 1) :
                  source[p + 1] = ";"

OpcodeMnemonics == {e[2] : e \in OpcodeSpellings}

\* the kind the ordered rules give an alphanumeric run
RuleKind(id) ==
    CASE id \in OpcodeMnemonics -> "Opcode"
      [] id \notin OpcodeMnemonics /\ Len(id) = 2 /\ id[1] = "R"
            /\ id[2] \in {"0", "1", "2", "3", "4", "5", "6", "7"} -> "Register"
      [] id \notin OpcodeMnemonics /\ id[1] = "x"
            /\ {id[i] : i \in 2..Len(id)} \subseteq HexDigits -> "Immediate"
      [] id \notin OpcodeMnemonics /\ id[1] = "b"
            /\ {id[i] : i \in 2..Len(id)} \subseteq {"0", "1"} -> "Immediate"
      [] OTHER -> "Label"

RunEnd(src, p) == find_if_not(src, p, isalnum)

\* C5: a token that begins at a digit-led alphanumeric run holding a letter
\* (such as 3D5) covers the run and is of kind Unknown.
C5_DigitLedRunIsUnknown ==
    \A i \in 1..Len(tokens) :
        LET t == tokens[i]
        IN  (/\ t.begin < Len(source)
             /\ source[t.begin + 1] \in Digits
             /\ \E p \in t.begin..(RunEnd(source, t.begin) - 1) :
                    source[p + 1] \in Letters)
            => t.kind = "Unknown" /\ t.end = RunEnd(source, t.begin)

----------------------------------------------------------------------------
(* add_operand applied to one Immediate or Number token, as the instruction *)
(* tests do with tokens built from a text.                                  *)

Prefixes == {<<>>, <<"#">>, <<"x">>, <<"b">>}

Signs == {<<>>, <<"+">>, <<"-">>}

DecDigitChars == {"0", "3", "6", "9"}

HexDigitChars == {"0", "1", "7", "8", "F", "c"}

\* the digit runs at the limits of the accepted range
DecBoundary ==
    { <<"3", "2", "7", "6", "7">>, <<"3", "2", "7", "6", "8">>,
      <<"3", "2", "7", "6", "9">>, <<"6", "5", "5", "3", "5">>,
      <<"6", "5", "5", "3", "6">>, <<"0", "0", "6", "5", "5", "3", "5">> }

HexBoundary ==
    { <<"7", "F", "F", "F">>, <<"8", "0", "0", "0">>, <<"F", "F", "F", "F">>,
      <<"f", "f", "f", "f">>, <<"1", "0", "0", "0", "0">> }

BinBoundary ==
    { [i \in 1..15 |-> "1"], [i \in 1..16 |-> "1"],
      [i \in 1..16 |-> IF i = 1 THEN "1" ELSE "0"],
      [i \in 1..17 |-> IF i = 1 THEN "1" ELSE "0"] }

\* the digit runs tried after a prefix
DigitRuns(prefix) ==
    CASE prefix = <<"x">> -> SeqsUpTo(HexDigitChars, MaxDigits) \cup HexBoundary
      [] prefix = <<"b">> -> SeqsUpTo({"0", "1"}, MaxBinDigits) \cup BinBoundary
      [] OTHER -> SeqsUpTo(DecDigitChars, MaxDigits) \cup DecBoundary

\* the kinds tried with a prefix: the tests hand bare texts in as both
KindsOfPrefix(prefix) ==
    IF prefix = <<>> THEN {"Immediate", "Number"} ELSE {"Immediate"}

BaseOfPrefix(prefix) ==
    CASE prefix = <<"x">> -> 16
      [] prefix = <<"b">> -> 2
      [] OTHER -> 10

AddOperandToToken ==
    /\ calls = 0
    /\ LET r == add_operand(operands_, tok.kind, tok.content)
       IN  /\ operands_' = r.operands
           /\ last_err' = r.err
    /\ calls' = calls + 1
    /\ UNCHANGED <<tok, label_, opcode_, lexVars, parseVars>>
    /\ UNCHANGED asmVars

InitNumber ==
    /\ \E pre \in Prefixes, sg \in Signs :
           \E ds \in DigitRuns(pre), k \in KindsOfPrefix(pre) :
               /\ pre \o sg \o ds # <<>>
               /\ tok = [kind |-> k, content |-> pre \o sg \o ds]
    /\ source = tok.content
    /\ LexInit
    /\ OpInit
    /\ ParseInit
    /\ AsmInit

NextNumber == AddOperandToToken

SpecNumber == InitNumber /\ [][NextNumber]_vars

\* the integer a run of digits denotes in a base
RECURSIVE RunValue(_, _)
RunValue(ds, base) ==
    IF ds = <<>> THEN 0
    ELSE RunValue(SubSeq(ds, 1, Len(ds) - 1), base) * base + DigitValue(ds[Len(ds)])

TextPrefix(c) == IF c[1] \in {"#", "x", "b"} THEN <<c[1]>> ELSE <<>>

TextSign(c) ==
    LET k == Len(TextPrefix(c)) + 1
    IN  IF k <= Len(c) /\ c[k] \in {"+", "-"} THEN <<c[k]>> ELSE <<>>

TextDigits(c) == SubSeq(c, Len(TextPrefix(c)) + Len(TextSign(c)) + 1, Len(c))

\* the integer a token text denotes
Denoted(c) ==
    LET m == RunValue(TextDigits(c), BaseOfPrefix(TextPrefix(c)))
    IN  IF TextSign(c) = <<"-">> THEN -m ELSE m

----------------------------------------------------------------------------
(* add_operand applied to the tokens of a source one after the other, as    *)
(* `instr.add_operand(next_token())` of parse_operand_list does.            *)

OperandChars == {"R", "1", ",", "\"", "#", "a", "\n", " "}

OperandSources ==
    SeqsUpTo(OperandChars, MaxOpLen)
        \cup { <<"R", "1", " ", "#", "9", "9", "9", "9", "9", " ", "a">>,
               <<"\"", "a", " ", "1", "\"", " ", "\"", "\"", " ", "\"", "a">>,
               <<"x", "F", "F", "F", "F", " ", "7", "0", "0", "0", "0", " ", "+">> }

AddNextToken ==
    /\ cur_token_.kind # "End"
    /\ cur_token_' = next_token(source, current_)
    /\ current_' = cur_token_'.end
    /\ tokens' = Append(tokens, cur_token_')
    /\ LET r == add_operand(operands_, cur_token_'.kind,
                            TokenContent(source, cur_token_'))
       IN  /\ operands_' = r.operands
           /\ last_err' = r.err
    /\ calls' = calls + 1
    /\ UNCHANGED <<source, tok, label_, opcode_, parseVars>>
    /\ UNCHANGED asmVars

InitOperand ==
    /\ source \in OperandSources
    /\ LexInit
    /\ tok = NoTok
    /\ OpInit
    /\ ParseInit
    /\ AsmInit

NextOperand == AddNextToken

SpecOperand == InitOperand /\ [][NextOperand]_vars

ErrorTypes ==
    {"NoError", "InvalidTokenKind", "InvalidNumber", "IntegerOverflow", "MissingQuote"}

\* C7: an add_operand call that returns NoError appends exactly one operand
\* and leaves the earlier operands as they were; a call that returns an error
\* leaves the operand list as it was.
C7_AddOperandFrame ==
    [][ /\ last_err' \in ErrorTypes
        /\ last_err' = "NoError" =>
               /\ Len(operands_') = Len(operands_) + 1
               /\ SubSeq(operands_', 1, Len(operands_)) = operands_
        /\ last_err' # "NoError" => operands_' = operands_ ]_vars

C7_Witness ==
    /\ calls >= 3
    /\ Len(operands_) = 2
    /\ last_err \in {"InvalidNumber", "MissingQuote"}

\* the pointers after the opening quote at which a quote closes the string
\* that opens at pointer b: no newline lies in between
ClosingQuotes(src, b) ==
    {q \in (b + 1)..(Len(src) - 1) :
        /\ src[q + 1] = "\""
        /\ \A p \in (b + 1)..(q - 1) : src[p + 1] # "\n"}

\* C8: add_operand on a String token of the lexer returns NoError iff a quote
\* closes the string before the next newline or the end of the input, and the
\* operand appended is then the text strictly between the two quotes;
\* otherwise it returns MissingQuote.
C8_StringOperand ==
    (calls > 0 /\ cur_token_.kind = "String") =>
        LET b      == cur_token_.begin
            closes == ClosingQuotes(source, b)
        IN  IF closes # {}
            THEN /\ last_err = "NoError"
                 /\ operands_ # <<>>
                 /\ operands_[Len(operands_)] =
                        Operand("StringLiteral", 0, 0,
                                Slice(source, b + 1, SetMin(closes)))
            ELSE last_err = "MissingQuote"

C8_Witness ==
    /\ calls >= 2
    /\ cur_token_.kind = "String"
    /\ last_err = "MissingQuote"
    /\ TokenContent(source, cur_token_) = <<"\"">>
    /\ operands_ # <<>>
    /\ operands_[1] = Operand("StringLiteral", 0, 0, <<"a">>)

----------------------------------------------------------------------------
(* Parser::parse_instructions, one token-consuming step of the parser per   *)
(* action.                                                                  *)

\* the lexemes the parsed sources are made of
Pieces ==
    { <<"A", "D", "D", " ">>, <<".", "E", "N", "D", " ">>, <<"R", "1">>,
      <<",">>, <<"\n">>, <<"L", " ">>, <<"#">>, <<"?">> }

ParseSources == {Flatten(ps) : ps \in SeqsUpTo(Pieces, MaxPieces)}

\* the length a label may have, by the comments of lex_identifier and of
\* Token::Label
MaxLabelChars == 20

LongRun(n) == [i \in 1..n |-> "L"]

\* an instruction whose label and whose operand are runs of letters of the
\* longest allowed length, and of one more
LongLabelSources ==
    { LongRun(n) \o <<" ", "A", "D", "D", " ">> \o LongRun(n) :
          n \in {MaxLabelChars, MaxLabelChars + 1} }

\* a call of next_token by the parser
Advance ==
    /\ cur_token_' = next_token(source, current_)
    /\ current_' = cur_token_'.end

emit_opcode_diag_at_current_token(token) ==
    diags' = Append(diags, [what |-> "opcode", at |-> token.begin,
                            error |-> "NoError"])

emit_operand_diag_at_current_token(token, error) ==
    diags' = Append(diags, [what |-> "operand", at |-> token.begin,
                            error |-> error])

\* parse_instructions receives `instr` from parse_instruction
ReturnInstruction(instr) ==
    IF is_unknown(instr)
    THEN /\ instructions' = FailureResult(instructions)
         /\ pc' = "done"
    ELSE /\ instructions' = Append(instructions, instr)
         /\ pc' = IF IsEndInstruction(instr) THEN "done" ELSE "loop"

\* the first next_token() of parse_instructions
ParseBegin ==
    /\ pc = "idle"
    /\ Advance
    /\ pc' = "loop"
    /\ UNCHANGED <<source, tokens, instructions, diags, opVars>>
    /\ UNCHANGED asmVars

\* case Token::EOL
ParseSkipLine ==
    /\ pc = "loop"
    /\ cur_token_.kind = "EOL"
    /\ Advance
    /\ UNCHANGED <<source, tokens, instructions, diags, pc, opVars>>
    /\ UNCHANGED asmVars

\* case Token::End
ParseReachEnd ==
    /\ pc = "loop"
    /\ cur_token_.kind = "End"
    /\ pc' = "done"
    /\ UNCHANGED <<lexVars, instructions, diags, opVars>>
    /\ UNCHANGED asmVars

\* default: parse_instruction starts with a fresh Instruction and takes the
\* label, if the current token is one
ParseLabel ==
    /\ pc = "loop"
    /\ cur_token_.kind \notin {"EOL", "End"}
    /\ opcode_' = "UnknownOp"
    /\ operands_' = <<>>
    /\ IF cur_token_.kind = "Label"
       THEN /\ label_' = TokenContent(source, cur_token_)
            /\ Advance
       ELSE /\ label_' = <<>>
            /\ UNCHANGED <<current_, cur_token_>>
    /\ pc' = "opcode"
    /\ UNCHANGED <<source, tokens, instructions, diags, tok, calls, last_err>>
    /\ UNCHANGED asmVars

\* parse_instruction: the loop over the EOL tokens before the opcode
ParseSkipEOLBeforeOpcode ==
    /\ pc = "opcode"
    /\ cur_token_.kind = "EOL"
    /\ Advance
    /\ UNCHANGED <<source, tokens, instructions, diags, pc, opVars>>
    /\ UNCHANGED asmVars

\* parse_instruction: the opcode
ParseOpcode ==
    /\ pc = "opcode"
    /\ cur_token_.kind # "EOL"
    /\ IF cur_token_.kind \notin {"Opcode", "Pseudo"}
       THEN /\ emit_opcode_diag_at_current_token(cur_token_)
            /\ ReturnInstruction(UnknownInstruction)
            /\ UNCHANGED <<current_, cur_token_, opcode_>>
       ELSE /\ opcode_' = OpcodeOf(TokenContent(source, cur_token_))
            /\ Advance
            /\ pc' = "first_operand"
            /\ UNCHANGED <<instructions, diags>>
    /\ UNCHANGED <<source, tokens, tok, label_, operands_, calls, last_err>>
    /\ UNCHANGED asmVars

\* parse_operand_list: the first operand
ParseFirstOperand ==
    /\ pc = "first_operand"
    /\ LET r == add_operand(operands_, cur_token_.kind,
                            TokenContent(source, cur_token_))
       IN  /\ last_err' = r.err
           /\ operands_' = r.operands
           /\ CASE r.err = "InvalidTokenKind" ->
                       /\ ReturnInstruction(Instruction(label_, opcode_, r.operands))
                       /\ UNCHANGED diags
                [] r.err = "NoError" ->
                       /\ pc' = "next_operand"
                       /\ UNCHANGED <<instructions, diags>>
                [] OTHER ->
                       /\ emit_operand_diag_at_current_token(cur_token_, r.err)
                       /\ ReturnInstruction(UnknownInstruction)
    /\ calls' = calls + 1
    /\ UNCHANGED <<lexVars, tok, label_, opcode_>>
    /\ UNCHANGED asmVars

\* the while loop that takes a token of no operand kind behind a comma for the
\* end of the list, as the first operand position does
NextOperandFails_UnlessTokenKind(err) == err \notin {"NoError", "InvalidTokenKind"}

\* the test `construction_result != NoError` of the while loop
NextOperandFails(err) == err # "NoError"

\* parse_operand_list: one turn of the while loop
ParseNextOperand ==
    /\ pc = "next_operand"
    /\ LET comma == next_token(source, current_)
       IN  IF comma.kind # "Comma"
           THEN /\ cur_token_' = comma
                /\ current_' = comma.end
                /\ ReturnInstruction(Instruction(label_, opcode_, operands_))
                /\ UNCHANGED <<operands_, calls, last_err, diags>>
           ELSE LET token == next_token(source, comma.end)
                    r     == add_operand(operands_, token.kind,
                                         TokenContent(source, token))
                IN  /\ cur_token_' = token
                    /\ current_' = token.end
                    /\ last_err' = r.err
                    /\ operands_' = r.operands
                    /\ calls' = calls + 1
                    /\ IF NextOperandFails(r.err)
                       THEN /\ emit_operand_diag_at_current_token(token, r.err)
                            /\ ReturnInstruction(UnknownInstruction)
                       ELSE UNCHANGED <<instructions, diags, pc>>
    /\ UNCHANGED <<source, tokens, tok, label_, opcode_>>
    /\ UNCHANGED asmVars

InitParse ==
    /\ source \in ParseSources \cup LongLabelSources
    /\ LexInit
    /\ tok = NoTok
    /\ OpInit
    /\ ParseInit
    /\ AsmInit

NextParse ==
    \/ ParseBegin
    \/ ParseSkipLine
    \/ ParseReachEnd
    \/ ParseLabel
    \/ ParseSkipEOLBeforeOpcode
    \/ ParseOpcode
    \/ ParseFirstOperand
    \/ ParseNextOperand

SpecParse == InitParse /\ [][NextParse]_vars

\* C9: parse_instructions returns the one-element vector holding an unknown
\* instruction whenever an instruction failed to parse (a diagnostic was
\* emitted), whatever was parsed before; while no instruction has failed, the
\* vector holds no unknown instruction.
C9_SentinelOnFailure ==
    /\ diags # <<>> => pc = "done" /\ instructions = <<UnknownInstruction>>
    /\ diags = <<>> =>
           \A i \in 1..Len(instructions) : instructions[i].opcode_ # "UnknownOp"

\* an opcode diagnostic behind a first instruction that began with its opcode
C9_Witness ==
    /\ pc = "done"
    /\ Len(diags) = 1
    /\ diags[1].what = "opcode"
    /\ diags[1].at >= 4
    /\ next_token(source, 0) = Token("Opcode", 0, 3)
    /\ instructions = <<UnknownInstruction>>

HasEnd(instrs) == \E i \in 1..Len(instrs) : instrs[i].opcode_ = "END"

\* C10: an .END instruction is only ever the last element of the result and
\* ends the parse; once it is in the result, the result, the diagnostics and
\* the cursor never change again.
C10_StopsAtEnd ==
    [][ /\ \A i \in 1..Len(instructions') :
               instructions'[i].opcode_ = "END" =>
                   i = Len(instructions') /\ pc' = "done"
        /\ HasEnd(instructions) =>
               UNCHANGED <<instructions, diags, current_, cur_token_>> ]_vars

\* text that would not parse is left behind a parsed .END
C10_Witness ==
    /\ pc = "done"
    /\ Len(instructions) >= 2
    /\ instructions[Len(instructions)].opcode_ = "END"
    /\ diags = <<>>
    /\ current_ < Len(source)
    /\ source[Len(source)] = "?"

----------------------------------------------------------------------------
(* Instruction::validate_and_emit_diagnostics.                              *)

MaxOperands == 3

has_label(instr) == instr.label_ # <<>>

\* allows_label that lets every opcode carry a label
allows_label_Always(instr) == TRUE

allows_label(instr) == instr.opcode_ # "ORIG" /\ instr.opcode_ # "END"

BranchOpcodes == {"BRn", "BRz", "BRp", "BR", "BRzp", "BRnp", "BRnz", "BRnzp"}

expected_operand_types(opcode) ==
    CASE opcode \in {"ADD", "AND"} ->
             << <<"Register", "Register", "Register">>,
                <<"Register", "Register", "Immediate">> >>
      [] opcode \in BranchOpcodes \cup {"JSR"} ->
             << <<"Label">>, <<"Immediate">> >>
      [] opcode \in {"JMP", "JSRR"} -> << <<"Register">> >>
      [] opcode \in {"LD", "LDI", "LEA", "ST", "STI"} ->
             << <<"Register", "Label">> >>
      [] opcode \in {"LDR", "STR"} ->
             << <<"Register", "Register", "Immediate">> >>
      [] opcode = "NOT" -> << <<"Register", "Register">> >>
      [] opcode \in {"TRAP", "ORIG", "FILL"} -> << <<"Immediate">> >>
      [] opcode = "BLKW" -> << <<"Number">> >>
      [] opcode = "STRINGZ" -> << <<"StringLiteral">> >>
      [] OTHER -> << <<>> >>

INT16_MAX == 32767

immediate_range(opcode) ==
    CASE opcode = "TRAP" -> [first |-> 0, second |-> 255]
      [] opcode \in {"ORIG", "FILL", "BLKW"} ->
             [first |-> INT16_MIN, second |-> INT16_MAX]
      [] opcode \in {"ADD", "AND"} -> [first |-> -16, second |-> 15]
      [] opcode \in {"LD", "LDI", "LEA", "ST", "STI"} \cup BranchOpcodes ->
             [first |-> -256, second |-> 255]
      [] opcode \in {"LDR", "STR"} -> [first |-> -32, second |-> 31]
      [] opcode = "JSR" -> [first |-> -1024, second |-> 1023]
      [] OTHER -> [first |-> 0, second |-> 0]

\* std::mismatch over two ranges of the same length: the 0-based index of the
\* first operand whose type differs, the number of operands if none does
mismatch(operands, expected) ==
    LET differing == {i \in 1..Len(operands) : operands[i].type # expected[i]}
    IN  IF differing = {} THEN Len(operands) ELSE SetMin(differing) - 1

\* the loop over the expected operand type lists: [index, type] as the loop
\* leaves mismatched_operand_index and expected_operand_type
RECURSIVE MismatchLoop(_, _, _, _)
MismatchLoop(operands, expected_operands, k, expected_operand_type) ==
    IF k > Len(expected_operands)
    THEN [index |-> Len(operands) + 1, type |-> expected_operand_type]
    ELSE LET mismatched_operand_index == mismatch(operands, expected_operands[k])
         IN  IF mismatched_operand_index = Len(operands)
             THEN [index |-> mismatched_operand_index,
                   type  |-> expected_operand_type]
             ELSE IF k = Len(expected_operands)
                  THEN [index |-> mismatched_operand_index,
                        type  |-> expected_operands[k][mismatched_operand_index + 1]]
                  ELSE MismatchLoop(operands, expected_operands, k + 1,
                           expected_operands[k][mismatched_operand_index + 1])

\* std::find_if for the first Immediate or Number operand: its 1-based index,
\* 0 for operands_.end()
imm_operand_iter(operands) ==
    LET found == {i \in 1..Len(operands) :
                      operands[i].type \in {"Immediate", "Number"}}
    IN  IF found = {} THEN 0 ELSE SetMin(found)

\* the value returned and the diagnostic printed ("none" if none is)
validate_and_emit_diagnostics(instr) ==
    IF ~allows_label(instr) /\ has_label(instr)
    THEN [ok |-> FALSE, diag |-> "label_not_allowed"]
    ELSE LET expected_operands == expected_operand_types(instr.opcode_)
         IN  IF Len(instr.operands_) # Len(expected_operands[1])
             THEN [ok |-> FALSE, diag |-> "operand_count"]
             ELSE IF MismatchLoop(instr.operands_, expected_operands, 1,
                                  "Register").index # Len(instr.operands_)
                  THEN [ok |-> FALSE, diag |-> "operand_type"]
                  ELSE LET i == imm_operand_iter(instr.operands_)
                           valid_range == immediate_range(instr.opcode_)
                       IN  IF i # 0 /\ (instr.operands_[i].imm_ < valid_range.first
                                        \/ instr.operands_[i].imm_ > valid_range.second)
                           THEN [ok |-> FALSE, diag |-> "immediate_range"]
                           ELSE [ok |-> TRUE, diag |-> "none"]

emit_diag(what, i) == asm_diags' = Append(asm_diags, [what |-> what, at |-> i])

----------------------------------------------------------------------------
(* The validator applied to one instruction, as the instruction tests do.   *)

Opcodes == {e[1] : e \in OpcodeSpellings \cup PseudoSpellings}

OperandTypes == {"Register", "Immediate", "Number", "Label", "StringLiteral"}

\* the values tried for the Immediate and Number operands: the ends of the
\* ranges and their neighbours
ImmValues ==
    { -32768, -1025, -1024, -257, -256, -33, -32, -17, -16, -1, 0,
      15, 16, 31, 32, 255, 256, 1023, 1024, 32767 }

\* an operand of a type, as add_operand builds it
OperandOfType(type, imm) ==
    CASE type = "Register" -> from_register(1)
      [] type = "Immediate" -> from_integer(TRUE, imm)
      [] type = "Number" -> from_integer(FALSE, imm)
      [] type = "Label" -> from_label(<<"L">>)
      [] OTHER -> from_string_literal(<<"\"", "a", "\"">>)

ValidateInstruction ==
    /\ apc = "idle"
    /\ valid = <<>>
    /\ LET r == validate_and_emit_diagnostics(instructions_[1])
       IN  /\ valid' = Append(valid, r.ok)
           /\ IF r.ok THEN UNCHANGED asm_diags ELSE emit_diag(r.diag, 1)
    /\ UNCHANGED <<lexVars, opVars, parseVars, instructions_, address_,
                   symbol_table_, address, results, word_index, idx, apc,
                   exit_code>>

InitValidate ==
    /\ source = <<>>
    /\ LexInit
    /\ tok = NoTok
    /\ OpInit
    /\ ParseInit
    /\ \E opcode \in Opcodes, label \in {<<>>, <<"L">>}, imm \in ImmValues :
           \E types \in SeqsUpTo(OperandTypes, MaxOperands) :
               instructions_ =
                   << Instruction(label, opcode,
                          [i \in 1..Len(types) |-> OperandOfType(types[i], imm)]) >>
    /\ address_ = <<>>
    /\ symbol_table_ = <<>>
    /\ address = 0
    /\ results = <<>>
    /\ word_index = <<>>
    /\ asm_diags = <<>>
    /\ idx = 1
    /\ valid = <<>>
    /\ apc = "idle"
    /\ exit_code = "none"

NextValidate == ValidateInstruction

SpecValidate == InitValidate /\ [][NextValidate]_vars

\* the operand type tuples the specification accepts for an opcode
AcceptedTuples(opcode) ==
    CASE opcode \in {"ADD", "AND"} ->
             { <<"Register", "Register", "Register">>,
               <<"Register", "Register", "Immediate">> }
      [] opcode \in {"BR", "BRn", "BRz", "BRp", "BRzp", "BRnp", "BRnz",
                     "BRnzp", "JSR"} -> { <<"Label">>, <<"Immediate">> }
      [] opcode \in {"JMP", "JSRR"} -> { <<"Register">> }
      [] opcode \in {"LD", "LDI", "LEA", "ST", "STI"} -> { <<"Register", "Label">> }
      [] opcode \in {"LDR", "STR"} -> { <<"Register", "Register", "Immediate">> }
      [] opcode = "NOT" -> { <<"Register", "Register">> }
      [] opcode \in {"RET", "RTI", "GETC", "OUT", "PUTS", "IN", "PUTSP",
                     "HALT", "END"} -> { <<>> }
      [] opcode \in {"TRAP", "ORIG", "FILL"} -> { <<"Immediate">> }
      [] opcode = "BLKW" -> { <<"Number">> }
      [] opcode = "STRINGZ" -> { <<"StringLiteral">> }
      [] OTHER -> {}

\* the values the specification accepts for the integer operand of an opcode
AcceptedValues(opcode) ==
    CASE opcode \in {"ADD", "AND"} -> -16..15
      [] opcode \in {"BR", "BRn", "BRz", "BRp", "BRzp", "BRnp", "BRnz",
                     "BRnzp"} -> -256..255
      [] opcode = "JSR" -> -1024..1023
      [] opcode \in {"LDR", "STR"} -> -32..31
      [] opcode = "TRAP" -> 0..255
      [] opcode \in {"ORIG", "FILL", "BLKW"} -> -32768..32767
      [] OTHER -> {}

TypesOf(operands) == [i \in 1..Len(operands) |-> operands[i].type]

PassesValidation(instr) ==
    /\ instr.label_ = <<>> \/ instr.opcode_ \notin {"ORIG", "END"}
    /\ TypesOf(instr.operands_) \in AcceptedTuples(instr.opcode_)
    /\ \A i \in 1..Len(instr.operands_) :
           /\ instr.operands_[i].type \in {"Immediate", "Number"}
           /\ \A j \in 1..(i - 1) :
                  instr.operands_[j].type \notin {"Immediate", "Number"}
           => instr.operands_[i].imm_ \in AcceptedValues(instr.opcode_)

\* C11: validate_and_emit_diagnostics returns true iff the instruction has no
\* label or its opcode is neither .ORIG nor .END, its operand types are one of
\* the tuples accepted for its opcode, and its first Immediate or Number
\* operand, if any, lies in the range of its opcode; it prints a diagnostic
\* exactly when it returns false.
C11_ValidationAcceptsExactlyTheTable ==
    valid # <<>> =>
        /\ valid[1] = PassesValidation(instructions_[1])
        /\ valid[1] = (asm_diags = <<>>)

\* a labelled ADD with an immediate at the upper end of its range is accepted
C11_Witness ==
    /\ valid = <<TRUE>>
    /\ instructions_[1].opcode_ = "ADD"
    /\ instructions_[1].label_ # <<>>
    /\ Len(instructions_[1].operands_) = 3
    /\ instructions_[1].operands_[3].type = "Immediate"
    /\ instructions_[1].operands_[3].imm_ = 15

----------------------------------------------------------------------------
(* The assembler: 16-bit words and the encoders.                            *)

\* static_cast<std::uint16_t>(value)
ToUint16(value) == value % 65536

\* a | b on 16-bit words
BitOr(a, b) ==
    LET bit[i \in 0..16] ==
            IF i = 16 THEN 0
            ELSE (IF (a \div 2^i) % 2 = 1 \/ (b \div 2^i) % 2 = 1 THEN 2^i ELSE 0)
                 + bit[i + 1]
    IN  bit[0]

PseudoOpcodes == {"ORIG", "END", "FILL", "BLKW", "STRINGZ"}

translate_opcode(opcode) ==
    CASE opcode = "ADD" -> 1
      [] opcode = "AND" -> 5
      [] opcode \in BranchOpcodes -> 0
      [] opcode = "JMP" -> 12
      [] opcode = "JSR" -> 4
      [] opcode = "JSRR" -> 4
      [] opcode = "LD" -> 2
      [] opcode = "LDI" -> 10
      [] opcode = "LDR" -> 6
      [] opcode = "LEA" -> 14
      [] opcode = "NOT" -> 9
      [] opcode = "RET" -> 12
      [] opcode = "RTI" -> 8
      [] opcode = "ST" -> 3
      [] opcode = "STI" -> 11
      [] opcode = "STR" -> 7
      [] opcode \in {"TRAP", "GETC", "OUT", "PUTS", "IN", "PUTSP", "HALT"} -> 15
      [] OTHER -> 13

\* reg_id << position
translate_register(reg_operand, position) ==
    ToUint16(reg_operand.reg_id_ * 2^position)

\* static_cast<std::uint16_t>(value) & ((1 << bits) - 1)
translate_immediate(imm_operand, bits) ==
    ToUint16(imm_operand.imm_) % 2^bits

\* the value returned when a label cannot be encoded
TranslateError == ToUint16(-1)

\* the integer label_address - instr_address - 1, before the conversion
LabelDistance(label_address, instr_address) == label_address - instr_address - 1

\* static_cast<std::int16_t>(label_address - instr_address - 1)
LabelOffset(label_address, instr_address) ==
    ToInt16(LabelDistance(label_address, instr_address))

\* add_label that overwrites the entry of a label that is already there
add_label_Overwrites(symbol_table, label, label_address) ==
    [inserted |-> TRUE,
     table |-> [l \in DOMAIN symbol_table \cup {label} |->
                   IF l = label THEN label_address ELSE symbol_table[l]]]

\* symbol_table_.emplace(label, address).second, and the table afterwards
add_label(symbol_table, label, label_address) ==
    [inserted |-> label \notin DOMAIN symbol_table,
     table |-> [l \in DOMAIN symbol_table \cup {label} |->
                   IF l \in DOMAIN symbol_table THEN symbol_table[l]
                   ELSE label_address]]

\* a symbol table that only holds the labels of the instructions before the
\* one being encoded
TableSeenBy_EarlierOnly(symbol_table, instrs, i) ==
    [l \in {instrs[j].label_ : j \in 1..(i - 1)} \cap DOMAIN symbol_table |->
        symbol_table[l]]

\* the symbol table translate_label consults: the whole table, scan_label
\* has returned before translate is entered
TableSeenBy(symbol_table, instrs, i) == symbol_table

\* translate that returns the words encoded before the failure
TranslateFailureResult_KeepsEncoded(res) == res

\* translate: `return {}` when an instruction cannot be encoded
TranslateFailureResult(res) == <<>>

\* the value translate_label returns and the diagnostic it emits, for an
\* operand that is a label
translate_label(instr, operand_idx, bits, instr_address, symbol_table) ==
    LET label == instr.operands_[operand_idx].string_content_
    IN  IF label \notin DOMAIN symbol_table
        THEN [value |-> TranslateError, diag |-> "label_not_found"]
        ELSE LET offset == LabelOffset(symbol_table[label], instr_address)
                 max_offset == 2^(bits - 1) - 1
                 min_offset == -(2^(bits - 1))
             IN  IF offset < min_offset \/ offset > max_offset
                 THEN [value |-> TranslateError, diag |-> "label_out_of_range"]
                 ELSE [value |-> offset % 2^bits, diag |-> "none"]

\* the test of case Instruction::BRz
BRzOperandIsLabel(instr) == instr.operands_[1].type = "Label"

\* the call of translate_label an instruction makes: [idx, bits], idx = 0 if
\* it makes none
label_call(instr) ==
    CASE instr.opcode_ \in BranchOpcodes \ {"BRz"} -> [idx |-> 1, bits |-> 9]
      [] instr.opcode_ = "BRz" ->
             IF BRzOperandIsLabel(instr) THEN [idx |-> 1, bits |-> 9]
             ELSE [idx |-> 0, bits |-> 9]
      [] instr.opcode_ = "JSR" -> [idx |-> 1, bits |-> 11]
      [] instr.opcode_ \in {"LD", "LDI", "LEA", "ST", "STI"} -> [idx |-> 2, bits |-> 9]
      [] OTHER -> [idx |-> 0, bits |-> 0]

\* translate_label is called on an operand that is not a label: label()
\* fails its assertion, or reads the pointers of a union that holds an integer
label_call_is_undefined(instr) ==
    /\ label_call(instr).idx # 0
    /\ instr.operands_[label_call(instr).idx].type # "Label"

\* the nzp bits of a branch
BranchMask(opcode) ==
    CASE opcode = "BR" -> 7
      [] opcode = "BRn" -> 4
      [] opcode = "BRz" -> 2
      [] opcode = "BRp" -> 1
      [] opcode = "BRzp" -> 3
      [] opcode = "BRnp" -> 5
      [] opcode = "BRnz" -> 6
      [] OTHER -> 7

\* the low byte of the trap aliases
TrapVector(opcode) ==
    CASE opcode = "GETC" -> 32
      [] opcode = "OUT" -> 33
      [] opcode = "PUTS" -> 34
      [] opcode = "IN" -> 35
      [] opcode = "PUTSP" -> 36
      [] OTHER -> 37

\* the word and the diagnostic, for an instruction whose translate_label call
\* (if any) is on a label
translate_regular_instruction(instr, instr_address, symbol_table) ==
    LET opcode == instr.opcode_
        result == ToUint16(translate_opcode(opcode) * 2^12)
        reg(i, position) == translate_register(instr.operands_[i], position)
        imm(i, bits) == translate_immediate(instr.operands_[i], bits)
        call == label_call(instr)
        lab == IF call.idx = 0 THEN [value |-> 0, diag |-> "none"]
               ELSE translate_label(instr, call.idx, call.bits, instr_address,
                                    symbol_table)
        word ==
            CASE opcode \in {"ADD", "AND"} ->
                     IF instr.operands_[3].type = "Immediate"
                     THEN BitOr(BitOr(BitOr(BitOr(result, reg(1, 9)), reg(2, 6)),
                                      2^5), imm(3, 5))
                     ELSE BitOr(BitOr(BitOr(result, reg(1, 9)), reg(2, 6)), reg(3, 0))
              [] opcode \in BranchOpcodes ->
                     BitOr(BitOr(result, BranchMask(opcode) * 2^9),
                           IF call.idx # 0 THEN lab.value ELSE imm(1, 9))
              [] opcode \in {"JMP", "JSRR"} -> BitOr(result, reg(1, 6))
              [] opcode = "JSR" -> BitOr(BitOr(result, 2^11), lab.value)
              [] opcode \in {"LD", "LDI", "LEA", "ST", "STI"} ->
                     BitOr(BitOr(result, reg(1, 9)), lab.value)
              [] opcode \in {"LDR", "STR"} ->
                     BitOr(BitOr(BitOr(result, reg(1, 9)), reg(2, 6)), imm(3, 6))
              [] opcode = "NOT" ->
                     BitOr(BitOr(BitOr(result, reg(1, 9)), reg(2, 6)), 63)
              [] opcode = "RET" -> BitOr(result, 7 * 2^6)
              [] opcode = "TRAP" -> BitOr(result, imm(1, 8))
              [] opcode \in {"GETC", "OUT", "PUTS", "IN", "PUTSP", "HALT"} ->
                     BitOr(result, TrapVector(opcode))
              [] OTHER -> result
    IN  [word |-> word, diag |-> lab.diag]

\* static_cast<std::uint16_t>(c) for the characters the model uses
CharCode(c) ==
    CASE c = "a" -> 97
      [] c = "H" -> 72
      [] c = "i" -> 105
      [] c = " " -> 32
      [] OTHER -> 63

\* results.size() + regular_decimal(), as std::size_t: a count below 0 wraps
\* to a size no vector can have unless the sum is a size again
BlkwNewSize(size, count) == size + count

\* the results afterwards; thrown when resize throws std::length_error
translate_pseudo(instr, res) ==
    CASE instr.opcode_ = "FILL" ->
             [thrown |-> FALSE,
              results |-> Append(res, ToUint16(instr.operands_[1].imm_))]
      [] instr.opcode_ = "BLKW" ->
             LET new_size == BlkwNewSize(Len(res), instr.operands_[1].imm_)
             IN  IF new_size < 0 THEN [thrown |-> TRUE, results |-> res]
                 ELSE [thrown |-> FALSE,
                       results |-> [i \in 1..new_size |->
                                       IF i <= Len(res) THEN res[i] ELSE 0]]
      [] instr.opcode_ = "STRINGZ" ->
             [thrown |-> FALSE,
              results |->
                  res \o [i \in 1..Len(instr.operands_[1].string_content_) |->
                              CharCode(instr.operands_[1].string_content_[i])]
                      \o <<0>>]
      [] OTHER -> [thrown |-> FALSE, results |-> res]

\* assign_addresses with the case of .ORIG that is commented out: .ORIG sets
\* the address and does not advance it
AddressStep_OrigKeepsAddress(instr) ==
    CASE instr.opcode_ = "ORIG" -> 0
      [] instr.opcode_ = "FILL" -> 1
      [] instr.opcode_ = "BLKW" -> instr.operands_[1].imm_
      [] instr.opcode_ = "STRINGZ" -> Len(instr.operands_[1].string_content_) + 1
      [] OTHER -> 1

\* the advance of `address` in assign_addresses
AddressStep(instr) ==
    CASE instr.opcode_ = "FILL" -> 1
      [] instr.opcode_ = "BLKW" -> instr.operands_[1].imm_
      [] instr.opcode_ = "STRINGZ" -> Len(instr.operands_[1].string_content_) + 1
      [] OTHER -> 1

----------------------------------------------------------------------------
(* main in default mode and Assembler::run, one instruction of one loop per *)
(* step.                                                                    *)

MaxProgram == 3

\* run returns an empty vector
ReturnEmpty ==
    /\ results' = <<>>
    /\ apc' = "returned"

\* main after parse_instructions: the parse failure exit, or the Assembler is
\* constructed and run is entered
MainAssemble ==
    /\ apc = "idle"
    /\ pc = "done"
    /\ IF Len(instructions) = 1 /\ is_unknown(instructions[1])
       THEN /\ exit_code' = 1
            /\ apc' = "exited"
            /\ UNCHANGED instructions_
       ELSE /\ instructions_' = instructions
            /\ apc' = "validate"
            /\ UNCHANGED exit_code
    /\ UNCHANGED <<lexVars, opVars, parseVars, address_, symbol_table_, address,
                   results, word_index, asm_diags, idx, valid>>

\* run: std::any_of over validate_and_emit_diagnostics, one instruction
RunValidate ==
    /\ apc = "validate"
    /\ idx <= Len(instructions_)
    /\ LET r == validate_and_emit_diagnostics(instructions_[idx])
       IN  /\ valid' = Append(valid, r.ok)
           /\ IF r.ok
              THEN /\ idx' = idx + 1
                   /\ UNCHANGED <<asm_diags, results, apc>>
              ELSE /\ emit_diag(r.diag, idx)
                   /\ ReturnEmpty
                   /\ UNCHANGED idx
    /\ UNCHANGED <<lexVars, opVars, parseVars, instructions_, address_,
                   symbol_table_, address, word_index, exit_code>>

\* run without the test for a second .ORIG
HasLaterOrig_Never(instrs) == FALSE

\* the test of the second std::any_of of run
HasLaterOrig(instrs) ==
    \E i \in 2..Len(instrs) : instrs[i].opcode_ = "ORIG"

\* run: the two .ORIG tests, then the entry of assign_addresses.  On an empty
\* vector std::next(begin()) is past the end and front() has no element:
\* the behaviour is undefined, the run crashes or run returns what it holds.
RunCheckOrig ==
    /\ apc = "validate"
    /\ idx > Len(instructions_)
    /\ IF instructions_ = <<>>
       THEN /\ apc' \in {"terminated", "returned"}
            /\ results' = <<>>
            /\ UNCHANGED <<asm_diags, idx, address>>
       ELSE IF instructions_[1].opcode_ # "ORIG"
       THEN /\ emit_diag("orig_missing", 1)
            /\ ReturnEmpty
            /\ UNCHANGED <<idx, address>>
       ELSE IF HasLaterOrig(instructions_)
       THEN /\ emit_diag("orig_multiple", 1)
            /\ ReturnEmpty
            /\ UNCHANGED <<idx, address>>
       ELSE /\ apc' = "assign"
            /\ idx' = 1
            /\ address' = ToUint16(instructions_[1].operands_[1].imm_)
            /\ UNCHANGED <<asm_diags, results>>
    /\ UNCHANGED <<lexVars, opVars, parseVars, instructions_, address_,
                   symbol_table_, word_index, valid, exit_code>>

\* assign_addresses: one turn of its loop
AssignAddress ==
    /\ apc = "assign"
    /\ idx <= Len(instructions_)
    /\ address_' = Append(address_, address)
    /\ address' = ToUint16(address + AddressStep(instructions_[idx]))
    /\ idx' = idx + 1
    /\ UNCHANGED <<lexVars, opVars, parseVars, instructions_, symbol_table_,
                   results, word_index, asm_diags, valid, apc, exit_code>>

\* assign_addresses returns, scan_label is entered
AssignDone ==
    /\ apc = "assign"
    /\ idx > Len(instructions_)
    /\ apc' = "scan"
    /\ idx' = 1
    /\ UNCHANGED <<lexVars, opVars, parseVars, instructions_, address_,
                   symbol_table_, address, results, word_index, asm_diags, valid,
                   exit_code>>

\* scan_label: one turn of its loop
ScanLabel ==
    /\ apc = "scan"
    /\ idx <= Len(instructions_)
    /\ LET instr == instructions_[idx]
           r == add_label(symbol_table_, instr.label_, address_[idx])
       IN  IF has_label(instr)
           THEN /\ symbol_table_' = r.table
                /\ IF r.inserted
                   THEN /\ idx' = idx + 1
                        /\ UNCHANGED <<asm_diags, results, apc>>
                   ELSE /\ emit_diag("label_redefined", idx)
                        /\ ReturnEmpty
                        /\ UNCHANGED idx
           ELSE /\ idx' = idx + 1
                /\ UNCHANGED <<symbol_table_, asm_diags, results, apc>>
    /\ UNCHANGED <<lexVars, opVars, parseVars, instructions_, address_, address,
                   word_index, valid, exit_code>>

\* scan_label returns true, translate is entered
ScanDone ==
    /\ apc = "scan"
    /\ idx > Len(instructions_)
    /\ apc' = "translate"
    /\ idx' = 1
    /\ UNCHANGED <<lexVars, opVars, parseVars, instructions_, address_,
                   symbol_table_, address, results, word_index, asm_diags, valid,
                   exit_code>>

\* translate: a pseudo-instruction
TranslatePseudo ==
    /\ apc = "translate"
    /\ idx <= Len(instructions_)
    /\ instructions_[idx].opcode_ \in PseudoOpcodes
    /\ word_index' = Append(word_index, Len(results))
    /\ LET res == translate_pseudo(instructions_[idx], results)
       IN  IF res.thrown
           THEN /\ apc' = "terminated"
                /\ UNCHANGED <<results, idx>>
           ELSE /\ results' = res.results
                /\ idx' = idx + 1
                /\ UNCHANGED apc
    /\ UNCHANGED <<lexVars, opVars, parseVars, instructions_, address_,
                   symbol_table_, address, asm_diags, valid, exit_code>>

\* translate: a regular instruction
TranslateRegular ==
    /\ apc = "translate"
    /\ idx <= Len(instructions_)
    /\ instructions_[idx].opcode_ \notin PseudoOpcodes
    /\ ~label_call_is_undefined(instructions_[idx])
    /\ word_index' = Append(word_index, Len(results))
    /\ LET r == translate_regular_instruction(instructions_[idx], address_[idx],
                    TableSeenBy(symbol_table_, instructions_, idx))
       IN  /\ IF r.diag = "none" THEN UNCHANGED asm_diags
              ELSE emit_diag(r.diag, idx)
           /\ IF r.word = TranslateError
              THEN /\ results' = TranslateFailureResult(results)
                   /\ apc' = "returned"
                   /\ UNCHANGED idx
              ELSE /\ results' = Append(results, r.word)
                   /\ idx' = idx + 1
                   /\ UNCHANGED apc
    /\ UNCHANGED <<lexVars, opVars, parseVars, instructions_, address_,
                   symbol_table_, address, valid, exit_code>>

\* translate: translate_label is handed an operand that is not a label.  The
\* assertion of Operand::label ends the run, or the pointers read from the
\* union name no label of the table.
TranslateUndefined ==
    /\ apc = "translate"
    /\ idx <= Len(instructions_)
    /\ instructions_[idx].opcode_ \notin PseudoOpcodes
    /\ label_call_is_undefined(instructions_[idx])
    /\ word_index' = Append(word_index, Len(results))
    /\ \/ /\ apc' = "terminated"
          /\ UNCHANGED <<results, asm_diags>>
       \/ /\ emit_diag("label_not_found", idx)
          /\ ReturnEmpty
    /\ UNCHANGED <<lexVars, opVars, parseVars, instructions_, address_,
                   symbol_table_, address, idx, valid, exit_code>>

\* translate returns its results
TranslateDone ==
    /\ apc = "translate"
    /\ idx > Len(instructions_)
    /\ apc' = "returned"
    /\ UNCHANGED <<lexVars, opVars, parseVars, instructions_, address_,
                   symbol_table_, address, results, word_index, asm_diags, idx,
                   valid, exit_code>>

\* main: `if (binary.empty()) return 1;`, else the words are printed and main
\* returns 0
ExitCodeOf(binary) == IF binary = <<>> THEN 1 ELSE 0

MainExit ==
    /\ apc = "returned"
    /\ exit_code' = ExitCodeOf(results)
    /\ apc' = "exited"
    /\ UNCHANGED <<lexVars, opVars, parseVars, instructions_, address_,
                   symbol_table_, address, results, word_index, asm_diags, idx,
                   valid>>

\* the address main prints for the word of index i (0-based)
WordAddress(i) == address_[1] + i

\* the instructions of the programs tried
Reg(n) == from_register(n)

Imm(n) == from_integer(TRUE, n)

Lbl(name) == from_label(<<name>>)

FirstInstructions ==
    { Instruction(<<>>, "ORIG", <<Imm(12288)>>),
      Instruction(<<"A">>, "ORIG", <<Imm(12288)>>),
      Instruction(<<>>, "ORIG", <<Imm(-2)>>),
      Instruction(<<>>, "ADD", <<Reg(1), Reg(2), Reg(3)>>) }

BodyInstructions ==
    { Instruction(<<"A">>, "ADD", <<Reg(1), Reg(1), Imm(-1)>>),
      Instruction(<<>>, "BRz", <<Lbl("A")>>),
      Instruction(<<"B">>, "JSR", <<Lbl("A")>>),
      Instruction(<<>>, "LEA", <<Reg(0), Lbl("B")>>),
      Instruction(<<"A">>, "FILL", <<Imm(1)>>),
      Instruction(<<>>, "BLKW", <<from_integer(FALSE, 2)>>),
      Instruction(<<>>, "BLKW", <<from_integer(FALSE, ToInt16(40000))>>),
      Instruction(<<>>, "BLKW", <<from_integer(FALSE, -1)>>),
      Instruction(<<>>, "STRINGZ", <<from_string_literal(<<"\"", "a", "\"">>)>>),
      Instruction(<<>>, "END", <<>>),
      Instruction(<<>>, "ADD", <<>>),
      Instruction(<<>>, "BRn", <<Imm(5)>>),
      Instruction(<<>>, "ORIG", <<Imm(12288)>>) }

\* what parse_instructions can hand to main: a program, the empty vector of
\* an empty source, or the vector of a failed parse
InitAsm ==
    /\ source = <<>>
    /\ LexInit
    /\ tok = NoTok
    /\ OpInit
    /\ diags = <<>>
    /\ pc = "done"
    /\ \/ instructions \in {<<>>, <<UnknownInstruction>>}
       \/ \E first \in FirstInstructions, body \in SeqsUpTo(BodyInstructions, MaxProgram) :
              instructions = <<first>> \o body
    /\ AsmInit

NextAsm ==
    \/ MainAssemble
    \/ RunValidate
    \/ RunCheckOrig
    \/ AssignAddress
    \/ AssignDone
    \/ ScanLabel
    \/ ScanDone
    \/ TranslatePseudo
    \/ TranslateRegular
    \/ TranslateUndefined
    \/ TranslateDone
    \/ MainExit

SpecAsm == InitAsm /\ [][NextAsm]_vars

AllValid == \A i \in 1..Len(instructions_) :
                validate_and_emit_diagnostics(instructions_[i]).ok

OrigCount(instrs) == Cardinality({i \in 1..Len(instrs) : instrs[i].opcode_ = "ORIG"})

\* C12: for a non-empty list whose instructions all pass validation, run emits
\* a diagnostic and returns an empty word stream if the first instruction is
\* not .ORIG or a later one is .ORIG, and it enters address assignment only
\* when the list begins with .ORIG and holds exactly one .ORIG.
C12_OrigFirstAndOnce ==
    [][ /\ apc = "validate" /\ apc' # "validate" /\ instructions_ # <<>>
           /\ AllValid
           /\ (instructions_[1].opcode_ # "ORIG" \/ OrigCount(instructions_) # 1)
           => /\ apc' = "returned"
              /\ results' = <<>>
              /\ Len(asm_diags') = Len(asm_diags) + 1
        /\ apc # "assign" /\ apc' = "assign"
           => /\ instructions_[1].opcode_ = "ORIG"
              /\ OrigCount(instructions_) = 1 ]_vars

\* a valid program with a second .ORIG was turned down
C12_Witness ==
    /\ apc = "returned"
    /\ results = <<>>
    /\ Len(instructions_) >= 3
    /\ AllValid
    /\ instructions_[1].opcode_ = "ORIG"
    /\ instructions_[3].opcode_ = "ORIG"
    /\ asm_diags = <<[what |-> "orig_multiple", at |-> 1]>>

\* the instructions that emit a word when they are encoded
EmitsWords(instr) ==
    \/ instr.opcode_ \notin PseudoOpcodes
    \/ instr.opcode_ \in {"FILL", "STRINGZ"}
    \/ instr.opcode_ = "BLKW" /\ instr.operands_[1].imm_ > 0

\* the operand of .ORIG as an address
OrigAddress == ToUint16(instructions_[1].operands_[1].imm_)

\* C13: every emitted word's address is the .ORIG operand plus the index of
\* the word in the stream, and the address pass 1 gave an instruction is the
\* address of the first word the instruction emits.
C13_AddressOfFirstWord ==
    apc \in {"translate", "returned", "exited"} /\ address_ # <<>> =>
        /\ \A i \in 0..(Len(results) - 1) : WordAddress(i) = OrigAddress + i
        /\ \A j \in 1..Len(word_index) :
               j < idx /\ EmitsWords(instructions_[j]) =>
                   address_[j] = ToUint16(WordAddress(word_index[j]))

\* the labels of the labelled instructions
LabelsOf(instrs) ==
    {instrs[j].label_ : j \in {k \in 1..Len(instrs) : has_label(instrs[k])}}

\* the first instruction whose label an earlier instruction carries, 0 if none
FirstRepeat(instrs) ==
    LET repeats == {k \in 1..Len(instrs) :
                        /\ has_label(instrs[k])
                        /\ \E j \in 1..(k - 1) : instrs[j].label_ = instrs[k].label_}
    IN  IF repeats = {} THEN 0 ELSE SetMin(repeats)

\* C14: scan_label inserts (label -> pass-1 address) for the labelled
\* instructions in order; at the first instruction whose label is already in
\* the table a label-redefined diagnostic is emitted and run returns an empty
\* word stream; if no label repeats the table holds exactly the labels of the
\* labelled instructions, each with the address of its own instruction.
C14_ScanLabel ==
    /\ apc = "scan" =>
           /\ DOMAIN symbol_table_ = LabelsOf(SubSeq(instructions_, 1, idx - 1))
           /\ FirstRepeat(instructions_) \in {0} \cup (idx..Len(instructions_))
    /\ apc = "translate" =>
           /\ FirstRepeat(instructions_) = 0
           /\ DOMAIN symbol_table_ = LabelsOf(instructions_)
    /\ apc \in {"scan", "translate"} =>
           \A j \in 1..Len(instructions_) :
               has_label(instructions_[j]) /\ (apc = "scan" => j < idx) =>
                   symbol_table_[instructions_[j].label_] = address_[j]
    /\ \A k \in 1..Len(asm_diags) :
           asm_diags[k].what = "label_redefined" =>
               /\ asm_diags[k].at = FirstRepeat(instructions_)
               /\ apc \in {"returned", "exited"}
               /\ results = <<>>

\* a program whose third instruction repeats the label of the second
C14_Witness ==
    /\ apc = "returned"
    /\ results = <<>>
    /\ asm_diags = <<[what |-> "label_redefined", at |-> 3]>>
    /\ DOMAIN symbol_table_ = {<<"A">>}
    /\ symbol_table_[<<"A">>] = address_[2]

\* the instruction translate has reached
CurrentInstr == instructions_[idx]

\* translate is about to encode a regular instruction with a label operand
\* that is in the symbol table
EncodesResolvedLabel ==
    /\ apc = "translate"
    /\ idx <= Len(instructions_)
    /\ label_call(CurrentInstr).idx # 0
    /\ CurrentInstr.operands_[label_call(CurrentInstr).idx].type = "Label"
    /\ CurrentInstr.operands_[label_call(CurrentInstr).idx].string_content_
           \in DOMAIN symbol_table_

\* the width of the PC-relative field of an opcode
FieldBits(opcode) == IF opcode = "JSR" THEN 11 ELSE 9

\* the integer label_address - instr_address - 1 of the current instruction
CurrentDistance ==
    symbol_table_[CurrentInstr.operands_[label_call(CurrentInstr).idx].string_content_]
        - address_[idx] - 1

\* C15: a label operand is encoded iff the integer label_address -
\* instr_address - 1 lies in [-2^(N-1), 2^(N-1)-1], and then the field holds
\* its low N bits; otherwise an out-of-range diagnostic is emitted and the
\* encoding is given up.
C15_OffsetFitsField ==
    [][ EncodesResolvedLabel =>
            LET N == FieldBits(CurrentInstr.opcode_)
            IN  IF CurrentDistance \in (-(2^(N - 1)))..(2^(N - 1) - 1)
                THEN /\ Len(results') = Len(results) + 1
                     /\ results'[Len(results')] % 2^N = CurrentDistance % 2^N
                     /\ UNCHANGED asm_diags
                ELSE /\ asm_diags' = Append(asm_diags,
                            [what |-> "label_out_of_range", at |-> idx])
                     /\ apc' = "returned"
                     /\ results' = <<>> ]_vars

\* translate is about to encode a regular instruction with a label operand
EncodesLabel ==
    /\ apc = "translate"
    /\ idx <= Len(instructions_)
    /\ label_call(CurrentInstr).idx # 0
    /\ CurrentInstr.operands_[label_call(CurrentInstr).idx].type = "Label"

\* the label operand of the current instruction
CurrentLabel == CurrentInstr.operands_[label_call(CurrentInstr).idx].string_content_

\* C16: when an instruction with a label operand is encoded, the label
\* resolves iff some instruction of the sequence carries it, before or after
\* the instruction; a label no instruction carries yields a label-not-found
\* diagnostic and an empty word stream.
C16_LabelsResolveBothWays ==
    [][ EncodesLabel =>
            IF CurrentLabel \in LabelsOf(instructions_)
            THEN \/ UNCHANGED asm_diags
                 \/ asm_diags' = Append(asm_diags,
                        [what |-> "label_out_of_range", at |-> idx])
            ELSE /\ asm_diags' = Append(asm_diags,
                        [what |-> "label_not_found", at |-> idx])
                 /\ apc' = "returned"
                 /\ results' = <<>> ]_vars

\* a program with a reference to the label of a later instruction was encoded
C16_Witness ==
    /\ apc = "returned"
    /\ asm_diags = <<>>
    /\ Len(results) >= 2
    /\ \E i \in 1..Len(instructions_), j \in 1..Len(instructions_) :
           /\ i < j
           /\ instructions_[i].opcode_ = "LEA"
           /\ instructions_[i].operands_[2].string_content_ = instructions_[j].label_

\* the opcode nibble of the specification's table
SpecNibble(opcode) ==
    CASE opcode = "ADD" -> 1
      [] opcode = "AND" -> 5
      [] opcode \in {"BR", "BRn", "BRz", "BRp", "BRzp", "BRnp", "BRnz", "BRnzp"} -> 0
      [] opcode \in {"JMP", "RET"} -> 12
      [] opcode \in {"JSR", "JSRR"} -> 4
      [] opcode = "LD" -> 2
      [] opcode = "LDI" -> 10
      [] opcode = "LDR" -> 6
      [] opcode = "LEA" -> 14
      [] opcode = "NOT" -> 9
      [] opcode = "RTI" -> 8
      [] opcode = "ST" -> 3
      [] opcode = "STI" -> 11
      [] opcode = "STR" -> 7
      [] OTHER -> 15

\* the nzp mask of the specification's layout
SpecMask(opcode) ==
    CASE opcode = "BRn" -> 4
      [] opcode = "BRz" -> 2
      [] opcode = "BRp" -> 1
      [] opcode = "BRzp" -> 3
      [] opcode = "BRnp" -> 5
      [] opcode = "BRnz" -> 6
      [] OTHER -> 7

\* the PC-relative field of an N-bit operand: the distance to a label, or the
\* immediate itself
SpecOffset(operand, instr_address, symbol_table, N) ==
    IF operand.type = "Label"
    THEN (symbol_table[operand.string_content_] - instr_address - 1) % 2^N
    ELSE operand.imm_ % 2^N

\* the word of the specification's layout, the fields added up
SpecWord(instr, instr_address, symbol_table) ==
    LET opcode == instr.opcode_
        op(i) == instr.operands_[i]
        nibble == SpecNibble(opcode) * 4096
    IN  CASE opcode \in {"ADD", "AND"} ->
                 nibble + op(1).reg_id_ * 512 + op(2).reg_id_ * 64
                     + (IF op(3).type = "Register" THEN op(3).reg_id_
                        ELSE 32 + (op(3).imm_ % 32))
          [] opcode \in {"BR", "BRn", "BRz", "BRp", "BRzp", "BRnp", "BRnz", "BRnzp"} ->
                 SpecMask(opcode) * 512
                     + SpecOffset(op(1), instr_address, symbol_table, 9)
          [] opcode \in {"JMP", "JSRR"} -> nibble + op(1).reg_id_ * 64
          [] opcode = "RET" -> nibble + 7 * 64
          [] opcode = "JSR" ->
                 nibble + 2048 + SpecOffset(op(1), instr_address, symbol_table, 11)
          [] opcode \in {"LD", "LDI", "LEA", "ST", "STI"} ->
                 nibble + op(1).reg_id_ * 512
                     + SpecOffset(op(2), instr_address, symbol_table, 9)
          [] opcode \in {"LDR", "STR"} ->
                 nibble + op(1).reg_id_ * 512 + op(2).reg_id_ * 64
                     + (op(3).imm_ % 64)
          [] opcode = "NOT" -> nibble + op(1).reg_id_ * 512 + op(2).reg_id_ * 64 + 63
          [] opcode = "TRAP" -> nibble + (op(1).imm_ % 256)
          [] opcode = "GETC" -> 61472
          [] opcode = "OUT" -> 61473
          [] opcode = "PUTS" -> 61474
          [] opcode = "IN" -> 61475
          [] opcode = "PUTSP" -> 61476
          [] opcode = "HALT" -> 61477
          [] OTHER -> 32768

\* every label operand of an instruction is in the table, within the range of
\* the field of the opcode
LabelOperandsResolveInRange(instr, instr_address, symbol_table) ==
    \A i \in 1..Len(instr.operands_) :
        instr.operands_[i].type = "Label" =>
            /\ instr.operands_[i].string_content_ \in DOMAIN symbol_table
            /\ LET N == FieldBits(instr.opcode_)
                   distance == symbol_table[instr.operands_[i].string_content_]
                                   - instr_address - 1
               IN  distance \in (-(2^(N - 1)))..(2^(N - 1) - 1)

\* C17: for every validated real instruction whose label operands resolve in
\* range, the word emitted has the opcode nibble and the operand fields of the
\* specification's layout.
C17_WordLayout ==
    [][ /\ apc = "translate"
        /\ idx <= Len(instructions_)
        /\ CurrentInstr.opcode_ \notin PseudoOpcodes
        /\ LabelOperandsResolveInRange(CurrentInstr, address_[idx], symbol_table_)
        => results' = Append(results,
                          SpecWord(CurrentInstr, address_[idx], symbol_table_)) ]_vars

\* n zero words
Zeros(n) == [i \in 1..n |-> 0]

\* the words the specification has a pseudo-instruction append
SpecPseudoWords(instr) ==
    CASE instr.opcode_ = "FILL" -> <<instr.operands_[1].imm_ % 65536>>
      [] instr.opcode_ = "BLKW" -> Zeros(instr.operands_[1].imm_)
      [] instr.opcode_ = "STRINGZ" ->
             [i \in 1..Len(instr.operands_[1].string_content_) |->
                 CharCode(instr.operands_[1].string_content_[i])] \o <<0>>
      [] OTHER -> <<>>

\* C18: encoding a validated pseudo-instruction appends nothing for .ORIG and
\* .END, the word n as u16 for .FILL n, exactly k zero words for .BLKW k for
\* every k the validator accepts, and one word per byte of s followed by a
\* zero word for .STRINGZ s.
C18_PseudoWords ==
    [][ /\ apc = "translate"
        /\ idx <= Len(instructions_)
        /\ CurrentInstr.opcode_ \in PseudoOpcodes
        => /\ apc' = "translate"
           /\ results' = results \o SpecPseudoWords(CurrentInstr)
           /\ CurrentInstr.opcode_ = "BLKW" =>
                  Len(results') = Len(results) + CurrentInstr.operands_[1].imm_ ]_vars

\* C19: whenever validation, the .ORIG test, label scanning or encoding
\* reports an error, run returns an empty word stream; the words encoded
\* before a failure of the encoding are not returned.
C19_ErrorsEmptyTheStream ==
    [][ asm_diags' # asm_diags =>
            /\ apc' = "returned"
            /\ results' = <<>> ]_vars

\* the encoding failed after a word had been encoded
C19_Witness ==
    /\ apc = "returned"
    /\ results = <<>>
    /\ Len(asm_diags) = 1
    /\ asm_diags[1].what = "label_not_found"
    /\ asm_diags[1].at >= 3
    /\ word_index[asm_diags[1].at] >= 1

\* an error occurred: the parse failed, or a diagnostic was emitted
ErrorOccurred ==
    \/ Len(instructions) = 1 /\ is_unknown(instructions[1])
    \/ asm_diags # <<>>

\* C20: in default mode the program exits with code 1 exactly when an error
\* occurred and with code 0 otherwise; a source that parses, validates and
\* encodes without any diagnostic exits 0.
C20_ExitCode ==
    apc = "exited" => (exit_code = 1 <=> ErrorOccurred)

----------------------------------------------------------------------------
(* Properties of labels, of the operand list and of the lexer's progress.   *)

IsLabelText(content) ==
    /\ Len(content) \in 1..MaxLabelChars
    /\ content[1] \in Letters

LabelsAreLabelTexts(instr_label, operands) ==
    /\ instr_label # <<>> => IsLabelText(instr_label)
    /\ \A i \in 1..Len(operands) :
           operands[i].type = "Label" => IsLabelText(operands[i].string_content_)

\* C21: every Label token, every instruction label and every Label operand
\* produced from a source is 1 to 20 characters long and begins with a letter.
C21_LabelShape ==
    /\ cur_token_.kind = "Label" => IsLabelText(TokenContent(source, cur_token_))
    /\ LabelsAreLabelTexts(label_, operands_)
    /\ \A i \in 1..Len(instructions) :
           LabelsAreLabelTexts(instructions[i].label_, instructions[i].operands_)

\* the instruction of the program the diagnostic `diag` is about: the
\* diagnostic of a second .ORIG names no instruction and is about the first
\* .ORIG behind the first instruction
DiagConstruct(diag) ==
    IF diag.what = "orig_multiple"
    THEN SetMin({i \in 2..Len(instructions_) : instructions_[i].opcode_ = "ORIG"})
    ELSE diag.at

\* instruction i of the program is an offending construct: it fails the
\* validation, it is a first instruction other than .ORIG or a later .ORIG,
\* it defines a label again, or it uses a label no instruction defines
Offends(i) ==
    LET instr == instructions_[i]
    IN  \/ ~validate_and_emit_diagnostics(instr).ok
        \/ i = 1 /\ instr.opcode_ # "ORIG"
        \/ i > 1 /\ instr.opcode_ = "ORIG"
        \/ /\ has_label(instr)
           /\ \E j \in 1..(i - 1) : instructions_[j].label_ = instr.label_
        \/ \E k \in 1..Len(instr.operands_) :
               /\ instr.operands_[k].type = "Label"
               /\ \A j \in 1..Len(instructions_) :
                      instructions_[j].label_ # instr.operands_[k].string_content_

\* C22: diagnostics appear in the textual order of the offending constructs:
\* the first diagnostic emitted is about the offending construct that comes
\* first in the source.
C22_DiagnosticsInTextualOrder ==
    asm_diags # <<>> =>
        \A i \in 1..(DiagConstruct(asm_diags[1]) - 1) : ~Offends(i)

\* the token kinds add_operand builds no operand from
NonOperandKinds == {"EOL", "End", "Comma", "Opcode", "Pseudo", "Unknown"}

\* the token behind the comma the parser is about to read, if it is about to
\* read a comma
AfterComma ==
    LET comma == next_token(source, current_)
    IN  [is_comma |-> comma.kind = "Comma",
         token |-> next_token(source, comma.end)]

\* C23: behind a comma of an operand list the next token must construct a
\* valid operand; if it does not, tokens of a non-operand kind included,
\* parse_operand_list emits an operand diagnostic and the parse yields the
\* vector holding one unknown instruction.  Only at the first operand position
\* a token of a non-operand kind means an empty operand list, without a
\* diagnostic and without consuming the token.
C23_OperandAfterComma ==
    [][ /\ ( /\ pc = "next_operand"
             /\ AfterComma.is_comma
             /\ \/ AfterComma.token.kind \in NonOperandKinds
                \/ add_operand(operands_, AfterComma.token.kind,
                               TokenContent(source, AfterComma.token)).err # "NoError" )
           => /\ diags' = Append(diags, [what |-> "operand",
                                         at |-> AfterComma.token.begin,
                                         error |-> last_err'])
              /\ last_err' # "NoError"
              /\ instructions' = <<UnknownInstruction>>
              /\ pc' = "done"
        /\ ( /\ pc = "first_operand"
             /\ cur_token_.kind \in NonOperandKinds )
           => /\ diags' = diags
              /\ cur_token_' = cur_token_
              /\ current_' = current_
              /\ instructions' = Append(instructions, Instruction(label_, opcode_, <<>>)) ]_vars

\* a trailing comma behind the operand of a second instruction
C23_Witness ==
    /\ pc = "done"
    /\ Len(diags) = 1
    /\ diags[1].what = "operand"
    /\ diags[1].error = "InvalidTokenKind"
    /\ cur_token_.kind \in {"End", "EOL"}
    /\ source[cur_token_.begin] = ","
    /\ next_token(source, 0).kind = "Opcode"
    /\ next_token(source, next_token(source, 0).end).kind = "Opcode"
    /\ instructions = <<UnknownInstruction>>

\* the distance d_i between the addresses of instruction i and i + 1
SpecDistance(instr) ==
    IF instr.opcode_ = "BLKW" THEN instr.operands_[1].imm_
    ELSE IF instr.opcode_ = "STRINGZ" THEN Len(instr.operands_[1].string_content_) + 1
    ELSE 1

\* C24: after pass 1 on a validated sequence that begins with .ORIG, the
\* address of the first instruction is the .ORIG operand as u16, and
\* addr[i+1] = (addr[i] + d_i) mod 2^16, d_i being 1 for .ORIG, .END, .FILL
\* and every real instruction, k for .BLKW k and the length of s plus 1 for
\* .STRINGZ s.
C24_PassOneAddresses ==
    address_ # <<>> =>
        /\ address_[1] = instructions_[1].operands_[1].imm_ % 65536
        /\ \A i \in 1..(Len(address_) - 1) :
               address_[i + 1] = (address_[i] + SpecDistance(instructions_[i])) % 65536

\* pass 1 is over for a program with a .STRINGZ whose addresses wrap
C24_Witness ==
    /\ apc = "scan"
    /\ Len(address_) = Len(instructions_)
    /\ Len(address_) >= 3
    /\ \E i \in 1..Len(instructions_) : instructions_[i].opcode_ = "STRINGZ"
    /\ \E i \in 1..(Len(address_) - 1) : address_[i + 1] < address_[i]

----------------------------------------------------------------------------
(* translate_pseudo, case Instruction::STRINGZ, byte by byte.               *)

MaxBytes == 2

\* the bytes of the literals tried: both ends of the two halves of 0..255
ByteValues == {0, 1, 97, 127, 128, 233, 255}

\* static_cast<std::uint16_t>(c) for `char c` holding the byte `byte`: the
\* signedness of char is chosen by the build (signed on x86, unsigned on ARM
\* Linux or with -funsigned-char); a signed char above 127 is negative and the
\* conversion to uint16_t adds 2^16
CharToWord(byte, char_is_signed) ==
    IF char_is_signed /\ byte >= 128 THEN (byte - 256) % 65536 ELSE byte

\* the literal of the .STRINGZ under translation
StringzBytes == instructions_[1].operands_[1].string_content_

\* one turn of `for (char c : string_literal())`
TranslateStringzChar ==
    /\ apc = "stringz"
    /\ idx <= Len(StringzBytes)
    /\ \E char_is_signed \in BOOLEAN :
           results' = Append(results, CharToWord(StringzBytes[idx], char_is_signed))
    /\ idx' = idx + 1
    /\ UNCHANGED <<lexVars, opVars, parseVars, instructions_, address_,
                   symbol_table_, address, word_index, asm_diags, valid, apc,
                   exit_code>>

\* `results.push_back(0)` behind the loop
TranslateStringzEnd ==
    /\ apc = "stringz"
    /\ idx > Len(StringzBytes)
    /\ results' = Append(results, 0)
    /\ apc' = "returned"
    /\ UNCHANGED <<lexVars, opVars, parseVars, instructions_, address_,
                   symbol_table_, address, word_index, asm_diags, idx, valid,
                   exit_code>>

InitStringz ==
    /\ source = <<>>
    /\ LexInit
    /\ tok = NoTok
    /\ OpInit
    /\ ParseInit
    /\ \E bytes \in SeqsUpTo(ByteValues, MaxBytes) :
           instructions_ = <<Instruction(<<>>, "STRINGZ",
                                <<Operand("StringLiteral", 0, 0, bytes)>>)>>
    /\ address_ = <<>>
    /\ symbol_table_ = <<>>
    /\ address = 0
    /\ results = <<>>
    /\ word_index = <<>>
    /\ asm_diags = <<>>
    /\ idx = 1
    /\ valid = <<>>
    /\ apc = "stringz"
    /\ exit_code = "none"

NextStringz == TranslateStringzChar \/ TranslateStringzEnd

SpecStringz == InitStringz /\ [][NextStringz]_vars

\* C25: for every byte value 0..255 of a .STRINGZ literal the word emitted
\* for the byte is the byte zero-extended: it lies in 0..255, bits 15..8 are 0.
C25_BytesZeroExtended ==
    \A i \in 1..Len(results) :
        i <= Len(StringzBytes) =>
            /\ results[i] = StringzBytes[i]
            /\ results[i] \in 0..255

\* C26: lexing terminates: every token other than End covers at least one
\* character of the source and the cursor never moves backwards, so for a
\* source of n characters next_token returns End after at most n + 1 calls.
C26_LexingTerminates ==
    \A i \in 1..Len(tokens) :
        /\ tokens[i].kind # "End" => tokens[i].end > tokens[i].begin
        /\ tokens[i].begin <= tokens[i].end
        /\ tokens[i].begin >= (IF i = 1 THEN 0 ELSE tokens[i - 1].end)
        /\ tokens[i].end <= Len(source)
        /\ i >= Len(source) + 1 => tokens[i].kind = "End"

\* a source of the greatest length all of whose characters are tokens: End
\* is returned by call n + 1 and by no call before
C26_Witness ==
    /\ Len(source) = MaxLen
    /\ Len(tokens) = MaxLen + 1
    /\ tokens[MaxLen].kind # "End"
    /\ tokens[MaxLen + 1].kind = "End"
    /\ \E i \in 1..MaxLen : tokens[i].kind = "Number"

----------------------------------------------------------------------------
(* The operand accessors called while an instruction is encoded.            *)

\* a call of the accessor of `type` (register_id, immediate_value,
\* regular_decimal, label, string_literal) on operand `i`
Call(i, type) == [idx |-> i, type |-> type]

\* the accessor calls translate_regular_instruction and translate_pseudo make
\* on the operands of `instr`
accessor_calls(instr) ==
    LET opcode == instr.opcode_
    IN  CASE opcode \in {"ADD", "AND"} ->
                 { Call(1, "Register"), Call(2, "Register"),
                   IF instr.operands_[3].type = "Immediate"
                   THEN Call(3, "Immediate") ELSE Call(3, "Register") }
          [] opcode \in BranchOpcodes \cup {"JSR"} ->
                 IF label_call(instr).idx # 0
                 THEN { Call(1, "Label") } ELSE { Call(1, "Immediate") }
          [] opcode \in {"JMP", "JSRR"} -> { Call(1, "Register") }
          [] opcode \in {"LD", "LDI", "LEA", "ST", "STI"} ->
                 { Call(1, "Register"), Call(2, "Label") }
          [] opcode \in {"LDR", "STR"} ->
                 { Call(1, "Register"), Call(2, "Register"), Call(3, "Immediate") }
          [] opcode = "NOT" -> { Call(1, "Register"), Call(2, "Register") }
          [] opcode \in {"TRAP", "FILL"} -> { Call(1, "Immediate") }
          [] opcode = "BLKW" -> { Call(1, "Number") }
          [] opcode = "STRINGZ" -> { Call(1, "StringLiteral") }
          [] OTHER -> {}

\* C27: every instruction that passes validation is encoded without a type
\* violation: each operand accessor is only called on an operand of its
\* type, for the branches and JSR with an Immediate operand too.
C27_AccessorsMatchTypes ==
    valid = <<TRUE>> =>
        \A call \in accessor_calls(instructions_[1]) :
            /\ call.idx <= Len(instructions_[1].operands_)
            /\ instructions_[1].operands_[call.idx].type = call.type

\* C28: for a source that holds no instruction parse_instructions returns the
\* empty vector and run finishes with an empty word stream, without reading
\* an element of the empty vector: the run is never ended by such a read.
C28_EmptyProgramFinishes ==
    (pc = "done" /\ instructions = <<>>) =>
        /\ apc \in {"idle", "validate", "returned", "exited"}
        /\ results = <<>>

IsPrefix(s, t) == Len(s) <= Len(t) /\ SubSeq(t, 1, Len(s)) = s

\* C29: while a validated program is encoded the word stream only grows: the
\* stream before an instruction is translated is a prefix of the stream after
\* it.
C29_StreamOnlyGrows ==
    [][ (apc = "translate" /\ apc' = "translate") => IsPrefix(results, results') ]_vars

----------------------------------------------------------------------------
(* The assembly with a .ORIG that does not advance the address.             *)

\* the advance of the address where .ORIG advances it by 0
StepWithOrigAt0(instr) ==
    IF instr.opcode_ = "ORIG" THEN 0 ELSE AddressStep(instr)

\* the address pass 1 gives instruction i of instructions_ then
RECURSIVE AddressWithOrigAt0(_)
AddressWithOrigAt0(i) ==
    IF i = 1 THEN ToUint16(instructions_[1].operands_[1].imm_)
    ELSE ToUint16(AddressWithOrigAt0(i - 1) + StepWithOrigAt0(instructions_[i - 1]))

\* the symbol table scan_label builds from these addresses
TableWithOrigAt0 ==
    [label \in DOMAIN symbol_table_ |->
        AddressWithOrigAt0(SetMin({i \in 1..Len(instructions_) :
                                      instructions_[i].label_ = label}))]

RegularWithOrigAt0(i) ==
    translate_regular_instruction(instructions_[i], AddressWithOrigAt0(i),
                                  TableWithOrigAt0)

\* the value translate returns then, from instruction i on with the words
\* `res` emitted so far
RECURSIVE TranslateWithOrigAt0(_, _)
TranslateWithOrigAt0(i, res) ==
    IF i > Len(instructions_) THEN res
    ELSE IF instructions_[i].opcode_ \in PseudoOpcodes
    THEN TranslateWithOrigAt0(i + 1, translate_pseudo(instructions_[i], res).results)
    ELSE IF RegularWithOrigAt0(i).word = TranslateError THEN <<>>
    ELSE TranslateWithOrigAt0(i + 1, Append(res, RegularWithOrigAt0(i).word))

\* every translate_label call of the program is on a label
EncodingIsDefined ==
    \A i \in 1..Len(instructions_) :
        instructions_[i].opcode_ \in PseudoOpcodes
            \/ ~label_call_is_undefined(instructions_[i])

\* translate was entered
Translated == Len(word_index) >= 1

\* C30: the word stream does not depend on how far pass 1 advances the
\* address past .ORIG: for every validated program, .ORIG advancing the
\* address by 1 (as implemented) and by 0 give the same word and the same
\* diagnostic for each instruction, the same stream and the same outcome.
C30_OrigAdvanceIsIrrelevant ==
    /\ ( /\ apc = "translate"
         /\ idx <= Len(instructions_)
         /\ CurrentInstr.opcode_ \notin PseudoOpcodes
         /\ ~label_call_is_undefined(CurrentInstr) )
       => translate_regular_instruction(CurrentInstr, address_[idx], symbol_table_)
              = RegularWithOrigAt0(idx)
    /\ (apc = "returned" /\ Translated /\ EncodingIsDefined)
       => results = TranslateWithOrigAt0(1, <<>>)

\* a program with a forward and a backward label use was encoded
C30_Witness ==
    /\ apc = "returned"
    /\ Translated
    /\ Len(results) = 3
    /\ Len(instructions_) = 4
    /\ instructions_[2].opcode_ = "JSR"
    /\ instructions_[3].opcode_ = "ADD"
    /\ instructions_[4].opcode_ = "BRz"

====
